---- MODULE Spec2Model ----
(***************************************************************************)
(* A model of the tide node runtime (tide/core/node.py), of the rosbag     *)
(* recorder and player (tide/core/rosbag.py), of the launcher              *)
(* (tide/core/utils.py, main.py), of tide/models/serialization.py and of   *)
(* the tick of tide/components/pose_estimator.py.                          *)
(*                                                                         *)
(* Strings are modelled as sequences of one-character strings, so that     *)
(* the key construction of BaseNode._make_key is computed, not assumed.    *)
(*                                                                         *)
(* Specifications of the module:                                           *)
(*   SpecKey     the namespace function _make_key and the keys that put    *)
(*               and subscribe hand to the transport;                      *)
(*   Spec        one node's messaging: subscriptions, the latest-value     *)
(*               cache, take, stop;                                        *)
(*   SpecWorker  one node's lifecycle: start, the worker tasks, stop;      *)
(*   SpecBag     the recorder with concurrent callers, and the player;     *)
(*   SpecPut     nodes publishing while a recorder is installed, the bag   *)
(*               closed and played back;                                   *)
(*   SpecRecord  record_zenoh_message statement by statement, with the     *)
(*               recorder cleared, closed and its writer thread failing;   *)
(*   SpecPlayer  RosbagPlayer._run statement by statement on a recorded    *)
(*               bag, in real-time and as-fast-as-possible mode;           *)
(*   SpecLaunch  launch_from_config and main.py on a configuration;        *)
(*   SpecDispatch  _on_sample statement by statement, with callbacks that  *)
(*               return or raise;                                          *)
(*   SpecStop    stop() on a transport whose close calls may raise;        *)
(*   SpecWorkerFair  the lifecycle on an event loop that keeps running;    *)
(*   SpecPace    the pacing of run()'s loop on a tick clock;               *)
(*   SpecSerial  to_zenoh_value and from_zenoh_value on messages and       *)
(*               dictionaries;                                             *)
(*   SpecRegister  register_callback, subscribe and stop on one node;      *)
(*   SpecEstimator  PoseEstimatorNode.step on the async BaseNode;          *)
(*   SpecWait    RosbagPlayer._sleep_with_stop on a tick clock;            *)
(*   SpecReplay  a player started again on a bag that was missing at the   *)
(*               first start.                                              *)
(***************************************************************************)
EXTENDS Integers, Sequences, FiniteSets, TLC

(* ------------------------------------------------------------------ *)
(* State                                                                *)
(* ------------------------------------------------------------------ *)

VARIABLES
    kConfig,    \* SpecKey: the config given to BaseNode.__init__, as far as robot_id goes
    kRobot,     \* SpecKey: self.ROBOT_ID of the node under test
    kGroup,     \* SpecKey: self.GROUP of the node under test
    kTopic,     \* SpecKey: the topic string the caller passes
    kPutKey,    \* SpecKey: the key BaseNode.put passed to z.put, or NoKey
    kSubKey,    \* SpecKey: the key BaseNode.subscribe passed to z.subscribe, or NoKey
    kGetKey     \* SpecKey: the key BaseNode.get passed to z.get, or NoKey

keyVars == <<kConfig, kRobot, kGroup, kTopic, kPutKey, kSubKey, kGetKey>>

VARIABLES
    latest,         \* self._latest_values: full key -> Absent, None or a sample value
    subscribers,    \* self._subscribers: full key -> Absent or the handle (id) stored
    callbacks,      \* self._callbacks: full key -> sequence of callbacks (<< >> = absent)
    liveSubs,       \* subscriptions live on the transport: [id, key, cb]
    nextSub,        \* next subscription handle id
    sessionOpen,    \* self.z is open
    running,        \* self._running
    tasks,          \* self.tasks: sequence of [st, cancel, steps]
    pending,        \* handles of the subscriptions still owed the sample in flight
    nextSample,     \* next sample value to be published
    takePc,         \* "idle", or "read" between take's read and its clear
    takeKey,        \* full key of the take in progress
    takeVal,        \* the local `value` of the take in progress
    stopCalls,      \* history: number of stop() calls made
    stoppedSince,   \* history: stop() returned and start() was not called since
    arrivedSince,   \* history: full key -> _on_sample stored a sample since the last take returned
    lastGot,        \* history: full key -> the last take on the key returned a value
    takeObs         \* history: the latest take, see TakeReturns

nodeVars == <<latest, subscribers, callbacks, liveSubs, nextSub, sessionOpen, running,
              tasks, pending, nextSample, takePc, takeKey, takeVal,
              stopCalls, stoppedSince, arrivedSince, lastGot, takeObs>>

subVars == <<subscribers, callbacks, liveSubs, nextSub>>
workerVars == <<running, tasks, stopCalls, stoppedSince>>
takeVars == <<takePc, takeKey, takeVal, lastGot, takeObs>>
histVars == <<arrivedSince>>

VARIABLES
    activeRecorder, \* rosbag._active_recorder is not None
    recClosed,      \* RosbagRecorder._closed
    recQueue,       \* RosbagRecorder._queue: entries and the sentinel, oldest first
    writerSt,       \* the writer thread: "running", or "closed" once _run has ended
    connections,    \* _run's connections: topics a writer connection was added for
    bag,            \* what the writer wrote: [topic, raw, ts], in write order
    now,            \* time.time_ns()
    recPc,          \* caller -> the entry record() is about to enqueue, or Idle
    closePc,        \* caller of close() -> "idle", "joining" or "returned"
    recCalls,       \* history: number of RosbagRecorder.record() calls made
    published,      \* history: what BaseNode.put gave z.put: [key, value, rec]
    lastPut,        \* history: [key, active, handed] of the latest put
    played,         \* history: what the player's current run published: [topic, data]
    plSt,           \* the player thread: "idle", "opening", "reading", "finished"
    plPos,          \* index of the next message of the bag reader
    plStopEvent,    \* RosbagPlayer._stop_event
    plError,        \* RosbagPlayer._error is not None
    plPublishers,   \* _run's publishers: topics a publisher is declared for
    plSession       \* the player's session is open

bagVars == <<activeRecorder, recClosed, recQueue, writerSt, connections, bag, now,
             recPc, closePc, recCalls, published, lastPut, played, plSt, plPos,
             plStopEvent, plError, plPublishers, plSession>>

VARIABLES
    rzPc,           \* caller -> where it is in record_zenoh_message: [st, topic, payload]
    rzCaught,       \* history: record_zenoh_message caught and logged an exception
    rzEscaped       \* history: an exception left record_zenoh_message

callVars == <<rzPc, rzCaught, rzEscaped>>

VARIABLES
    plRealtime,     \* RosbagPlayer.realtime
    plStartTs,      \* _run's start_timestamp, NoTime while None
    plStartWall,    \* _run's start_wall, NoTime while None
    plSleep,        \* _run's sleep_time of the message about to be published
    plTarget,       \* _sleep_with_stop's end
    plDecided,      \* history: the clock reading sleep_time was computed from
    plFailed,       \* history: an exception ended the current run
    plLog           \* history: per published message [ts, decided, at, slept, stopped]

playVars == <<plRealtime, plStartTs, plStartWall, plSleep, plTarget, plDecided, plFailed,
             plLog>>

VARIABLES
    cfgMode,        \* config["session"]["mode"]
    cfgNodes,       \* config["nodes"]: sequence of [type, hasParams, params]
    lPc,            \* launch_from_config: "idle", "loop", "returned" or "raised"
    lIdx,           \* index of the entry the loop is at
    lNodes,         \* its list nodes: [entry, config, session, starts, stops]
    lResult,        \* the list it returned
    lOpened,        \* number of zenoh.open() calls made by node constructors
    lSessions,      \* the sessions open in the process
    mainDryRun,     \* main.py: args.dry_run
    mainPc,         \* main.py: "start", "launched", "exit0" or "exit1"
    mainNodes       \* main.py: what its variable nodes holds

launchVars == <<cfgMode, cfgNodes, lPc, lIdx, lNodes, lResult, lOpened, lSessions,
               mainDryRun, mainPc, mainNodes>>

VARIABLES
    dPc,            \* the transport thread in _on_sample: "idle", "callback" or "handlers"
    dSub,           \* the subscription whose _on_sample is running or ran last
    dVal,           \* sample.value of that call
    dIdx,           \* index of the next handler of `for cb in self._callbacks[full_key]`
    dCalls,         \* history: the invocations that call made: [cb, arg, slot]
    dOwed,          \* history: the callbacks that call had to invoke when it ended
    dEscaped,       \* history: an exception left _on_sample into the transport thread
    dHits           \* history: the callbacks invoked so far for the sample dVal, by any subscription

dispVars == <<dPc, dSub, dVal, dIdx, dCalls, dOwed, dEscaped, dHits>>

VARIABLES
    stopRaised      \* history: a stop() call ended by raising

stopVars == <<stopRaised>>

VARIABLES
    sIn,            \* the value given to to_zenoh_value
    sCls,           \* the model_class given to from_zenoh_value
    sPc,            \* "start", "encoded", "decoded" or "raised"
    sBytes,         \* what to_zenoh_value returned
    sBack           \* what from_zenoh_value returned

serVars == <<sIn, sCls, sPc, sBytes, sBack>>

VARIABLES
    pPeriod,        \* 1.0 / self.hz, in clock ticks
    pClock,         \* time.time(), in clock ticks
    pFlag,          \* self._running as run() sees it
    pPc,            \* run(): "created", "loop", "sleep" or "done"
    pLast,          \* run()'s last_time
    pSleep,         \* run()'s sleep_time
    pLog            \* history: per iteration [t0, start, t1, sleep]

paceVars == <<pPeriod, pClock, pFlag, pPc, pLast, pSleep, pLog>>

VARIABLES
    envRecordBag    \* os.environ has TIDE_RECORD_BAG

envVars == <<envRecordBag>>

VARIABLES
    eTwist,         \* self._latest_values of the twist topic: Absent, None or a cached value
    eMeas,          \* self._latest_values of the measurement topic
    eLastTwist,     \* self._last_twist: None or a validated twist
    eValidSeen,     \* history: a valid twist was cached at some time
    eLog            \* history: per step() call, what was cached and what the call did

estVars == <<eTwist, eMeas, eLastTwist, eValidSeen, eLog>>

VARIABLES
    wPc,            \* _sleep_with_stop: "idle", "test" (at the while test), "asleep" or "returned"
    wClock,         \* time.time(), in ticks of 25 ms
    wEnd,           \* _sleep_with_stop's end
    wStop,          \* self._stop_event is set
    wWake,          \* when the time.sleep in progress returns
    wStopAt,        \* history: the clock when the stop event was set, NoTime while it is not
    wChunks,        \* history: the lengths time.sleep was called with
    wReturnedAt,    \* history: the clock when _sleep_with_stop returned
    wBegan          \* history: the clock when _sleep_with_stop was called

waitVars == <<wPc, wClock, wEnd, wStop, wWake, wStopAt, wChunks, wReturnedAt, wBegan>>

vars == <<keyVars, nodeVars, bagVars, callVars, playVars, launchVars,
          dispVars, stopVars, serVars, paceVars, envVars, estVars, waitVars>>

\* What an action of one specification leaves alone.
nonKeyVars == <<nodeVars, bagVars, callVars, playVars, launchVars, dispVars,
                 stopVars, serVars, paceVars, envVars, estVars, waitVars>>
nonNodeVars == <<keyVars, bagVars, callVars, playVars, launchVars, dispVars,
                 stopVars, serVars, paceVars, envVars, estVars, waitVars>>
nonBagVars == <<keyVars, nodeVars, callVars, playVars, launchVars, dispVars,
                 stopVars, serVars, paceVars, envVars, estVars, waitVars>>
nonCallVars == <<keyVars, nodeVars, playVars, launchVars, dispVars,
                 stopVars, serVars, paceVars, envVars, estVars, waitVars>>
nonPlayVars == <<keyVars, nodeVars, callVars, launchVars, dispVars,
                 stopVars, serVars, paceVars, envVars, estVars, waitVars>>
nonLaunchVars == <<keyVars, nodeVars, bagVars, callVars, playVars, dispVars,
                 stopVars, serVars, paceVars, envVars, estVars, waitVars>>
nonDispVars == <<keyVars, bagVars, callVars, playVars, launchVars, stopVars,
                 serVars, paceVars, envVars, estVars, waitVars>>
nonStopVars == <<keyVars, bagVars, callVars, playVars, launchVars, dispVars,
                 serVars, paceVars, envVars, estVars, waitVars>>
nonSerVars == <<keyVars, nodeVars, bagVars, callVars, playVars, launchVars,
                 dispVars, stopVars, paceVars, envVars, estVars, waitVars>>
nonPaceVars == <<keyVars, nodeVars, bagVars, callVars, playVars, launchVars,
                 dispVars, stopVars, serVars, envVars, estVars, waitVars>>
nonEstVars == <<keyVars, nodeVars, bagVars, callVars, playVars, launchVars,
                 dispVars, stopVars, serVars, paceVars, envVars, waitVars>>
nonWaitVars == <<keyVars, nodeVars, bagVars, callVars, playVars, launchVars,
                 dispVars, stopVars, serVars, paceVars, envVars, estVars>>

(* ------------------------------------------------------------------ *)
(* Bounds                                                               *)
(* ------------------------------------------------------------------ *)

\* Longest user topic string drawn as an input of _make_key.
MaxTopicLen == 3

(* ------------------------------------------------------------------ *)
(* Namespace: BaseNode._make_key                                        *)
(* ------------------------------------------------------------------ *)

Slash == <<"/">>

\* Characters topics are built from.
TopicChars == {"/", "g", "t"}

RECURSIVE StringsUpTo(_)
StringsUpTo(n) ==
    IF n = 0 THEN {<< >>}
    ELSE LET shorter == StringsUpTo(n - 1)
         IN  shorter \cup {Append(s, c) : s \in {x \in shorter : Len(x) = n - 1}, c \in TopicChars}

\* The topic strings a caller may pass to put, subscribe, take, ...
TopicInputs == StringsUpTo(MaxTopicLen)

\* BaseNode.ROBOT_ID, the class attribute ("robot" in the source).
ClassRobotId == <<"r">>

\* The config argument of BaseNode.__init__: None or a dict without
\* "robot_id" (has = FALSE), or a dict that supplies a robot_id string.
NoRobotId == [has |-> FALSE, robot_id |-> << >>]
NodeConfigs ==
    {NoRobotId} \cup {[has |-> TRUE, robot_id |-> r] : r \in {<<"g">>, <<"r", "g">>, << >>}}

\* BaseNode.__init__: self.config = config or {}; if "robot_id" in
\* self.config: self.ROBOT_ID = self.config["robot_id"]
InitRobotId(config) == IF config.has THEN config.robot_id ELSE ClassRobotId

\* GROUP values: the BaseNode default "" and a subclass override.
Groups == {<< >>, <<"g">>}

\* str.startswith
StartsWith(s, prefix) ==
    /\ Len(s) >= Len(prefix)
    /\ SubSeq(s, 1, Len(prefix)) = prefix

\* str.encode("utf-8") for code points below 2048.
RECURSIVE Utf8(_)
Utf8(cs) ==
    IF cs = << >> THEN << >>
    ELSE LET c == Head(cs)
         IN  (IF c < 128 THEN <<c>> ELSE <<192 + (c \div 64), 128 + (c % 64)>>)
                 \o Utf8(Tail(cs))

\* A plausible slip: the group test is dropped, the group is always inserted.
MakeKeyAlwaysGroup(robot_id, group, key) ==
    IF StartsWith(key, Slash) THEN key
    ELSE IF group # << >>
         THEN Slash \o robot_id \o Slash \o group \o Slash \o key
         ELSE Slash \o robot_id \o Slash \o key

\* A plausible slip: an absolute topic loses its leading slash.
MakeKeyStripSlash(robot_id, group, key) ==
    IF StartsWith(key, Slash) THEN Tail(key)
    ELSE IF group # << >> /\ ~StartsWith(key, group \o Slash)
         THEN Slash \o robot_id \o Slash \o group \o Slash \o key
         ELSE Slash \o robot_id \o Slash \o key

\* BaseNode._make_key(self, key) with self.ROBOT_ID = robot_id, self.GROUP = group.
MakeKey(robot_id, group, key) ==
    IF StartsWith(key, Slash) THEN key
    ELSE IF group # << >> /\ ~StartsWith(key, group \o Slash)
         THEN Slash \o robot_id \o Slash \o group \o Slash \o key
         ELSE Slash \o robot_id \o Slash \o key

\* "Nothing yet": no key was handed to the transport.
NoKey == <<"?">>

KeyInit ==
    /\ kConfig \in NodeConfigs
    /\ kRobot = InitRobotId(kConfig)
    /\ kGroup \in Groups
    /\ kTopic \in TopicInputs
    /\ kPutKey = NoKey
    /\ kSubKey = NoKey
    /\ kGetKey = NoKey

\* BaseNode.put: full_key = self._make_key(key); await self.z.put(full_key, value)
KeyPut ==
    /\ kPutKey = NoKey
    /\ kPutKey' = MakeKey(kRobot, kGroup, kTopic)
    /\ UNCHANGED <<kConfig, kRobot, kGroup, kTopic, kSubKey, kGetKey>>
    /\ UNCHANGED nonKeyVars

\* BaseNode.subscribe: full_key = self._make_key(key); self.z.subscribe(full_key, _on_sample)
KeySubscribe ==
    /\ kSubKey = NoKey
    /\ kSubKey' = MakeKey(kRobot, kGroup, kTopic)
    /\ UNCHANGED <<kConfig, kRobot, kGroup, kTopic, kPutKey, kGetKey>>
    /\ UNCHANGED nonKeyVars

\* BaseNode.get: full_key = self._make_key(key); samples = await self.z.get(full_key)
KeyGet ==
    /\ kGetKey = NoKey
    /\ kGetKey' = MakeKey(kRobot, kGroup, kTopic)
    /\ UNCHANGED <<kConfig, kRobot, kGroup, kTopic, kPutKey, kSubKey>>
    /\ UNCHANGED nonKeyVars

(* ------------------------------------------------------------------ *)
(* Node runtime: BaseNode                                               *)
(* ------------------------------------------------------------------ *)

\* Bounds of the node specification.
MaxSubs == 2        \* z.subscribe calls made by the node
MaxSamples == 2     \* samples published to the node's keys
MaxStarts == 2      \* start() calls
MaxStops == 2       \* stop() calls
MaxSteps == 2       \* step() invocations counted per worker (the count saturates)
MaxHandlers == 1    \* register_callback calls per key
MaxRegistered == 2  \* register_callback calls per key where their order is checked

\* The node under test: ROBOT_ID "r", GROUP "g".
NodeRobot == <<"r">>
NodeGroup == <<"g">>

\* Topics the node's callers use: a relative one, the same key written
\* absolutely, and an absolute key outside the node's namespace.
NodeTopics == {<<"t">>, <<"/", "r", "/", "g", "/", "t">>, <<"/", "t">>}

FullKeys == {MakeKey(NodeRobot, NodeGroup, t) : t \in NodeTopics}

\* User callbacks; NoCallback is subscribe's default callback=None.
Callbacks == {"cb1"}
NoCallback == "none"

\* start_timestamp / start_wall while they are None.
NoTime == -1

Absent == -1     \* key not in the dict
None == 0        \* Python None; sample values are 1, 2, ...

SampleValues == 1..MaxSamples
DoneStates == {"finished", "cancelled", "failed"}

\* BaseNode.__init__: empty tables, one session, not running.
NodeInit ==
    /\ latest = [k \in FullKeys |-> Absent]
    /\ subscribers = [k \in FullKeys |-> Absent]
    /\ callbacks = [k \in FullKeys |-> << >>]
    /\ liveSubs = {}
    /\ nextSub = 1
    /\ sessionOpen = TRUE
    /\ running = FALSE
    /\ tasks = << >>
    /\ pending = {}
    /\ nextSample = 1
    /\ takePc = "idle"
    /\ takeKey = NoKey
    /\ takeVal = None
    /\ stopCalls = 0
    /\ stoppedSince = FALSE
    /\ arrivedSince = [k \in FullKeys |-> FALSE]
    /\ lastGot = [k \in FullKeys |-> FALSE]
    /\ takeObs = [prevGot |-> FALSE, arrived |-> FALSE, got |-> FALSE, known |-> FALSE,
                  lost |-> FALSE]

\* The inputs of SpecKey, fixed while another specification runs.
KeyIdle ==
    /\ kConfig = NoRobotId
    /\ kRobot = NodeRobot
    /\ kGroup = NodeGroup
    /\ kTopic = << >>
    /\ kPutKey = NoKey
    /\ kSubKey = NoKey
    /\ kGetKey = NoKey

\* Code on the event loop runs only while no other coroutine is between two
\* of its own statements: take has no await, so nothing on the loop
\* interleaves with it; the transport thread does.
LoopFree == takePc = "idle"

(* ---- subscriptions ---- *)

\* The subscriptions the transport holds for one key.
LiveOn(k) == {s \in liveSubs : s.key = k}

\* BaseNode.subscribe(key, callback): a new transport subscription is declared
\* on every call and its handle overwrites the one stored for the key. The
\* overwritten handle is never closed; whether the transport releases a
\* handle nobody refers to any more is not decided by this code, so both
\* outcomes are modelled (dropped).
SubscribeCall(topic, cb, dropped) ==
    LET k == MakeKey(NodeRobot, NodeGroup, topic)
        old == {s \in liveSubs : s.id = subscribers[k]}
    IN  /\ sessionOpen
        /\ nextSub <= MaxSubs
        /\ liveSubs' = (IF dropped THEN liveSubs \ old ELSE liveSubs)
                          \cup {[id |-> nextSub, key |-> k, cb |-> cb]}
        /\ subscribers' = [subscribers EXCEPT ![k] = nextSub]
        /\ nextSub' = nextSub + 1

Subscribe(topic, cb, dropped) ==
    /\ LoopFree
    /\ SubscribeCall(topic, cb, dropped)
    /\ UNCHANGED nonNodeVars
    /\ UNCHANGED <<latest, callbacks, sessionOpen, pending, nextSample,
                   workerVars, takeVars, histVars>>

\* A plausible slip: the new handler goes to the front of the list.
RegisteredFirst(handlers, cb) == <<cb>> \o handlers

\* register_callback: self._callbacks[full_key].append(callback), on the list
\* created empty when the key has none.
Registered(handlers, cb) == Append(handlers, cb)

\* BaseNode.register_callback(key, callback): append to the handler list, then
\* subscribe (without callback) only when no handle is stored for the key.
\* On a closed session the subscribe raises after the handler was appended.
RegisterCallbackUpTo(limit, topic, cb) ==
    LET k == MakeKey(NodeRobot, NodeGroup, topic)
    IN  /\ LoopFree
        /\ Len(callbacks[k]) < limit
        /\ callbacks' = [callbacks EXCEPT ![k] = Registered(@, cb)]
        /\ IF subscribers[k] = Absent /\ sessionOpen
           THEN SubscribeCall(topic, NoCallback, FALSE)
           ELSE UNCHANGED <<liveSubs, subscribers, nextSub>>
        /\ UNCHANGED nonNodeVars
        /\ UNCHANGED <<latest, sessionOpen, pending, nextSample,
                       workerVars, takeVars, histVars>>

RegisterCallback(topic, cb) == RegisterCallbackUpTo(MaxHandlers, topic, cb)

\* The handlers a caller registers where the order of registration matters.
RegisterHandlers == {"cb1", "cb2"}

(* ---- samples ---- *)

\* The sample the transport is handing out.
InFlight == nextSample - 1

\* A publisher somewhere puts a sample on key k: the transport owes it to
\* every subscription live on k. The session's receive path hands out one
\* sample at a time, so each subscription sees its samples in publish order.
Publish(k) ==
    /\ nextSample <= MaxSamples
    /\ pending = {}
    /\ LiveOn(k) # {}
    /\ pending' = {s.id : s \in LiveOn(k)}
    /\ nextSample' = nextSample + 1
    /\ UNCHANGED nonNodeVars
    /\ UNCHANGED <<latest, sessionOpen, subVars, workerVars, takeVars, histVars>>

\* The callbacks one _on_sample call invokes, in order: the callback given
\* to subscribe, then every registered handler of the key.
Dispatched(s) ==
    (IF s.cb # NoCallback THEN <<s.cb>> ELSE << >>) \o callbacks[s.key]

\* _on_sample: self._latest_values[full_key] = sample.value
Store(slots, k, v) == [slots EXCEPT ![k] = v]

\* subscribe._on_sample(sample), on the transport's thread, for subscription s.
OnSample(s) ==
    /\ s \in liveSubs
    /\ s.id \in pending
    /\ pending' = pending \ {s.id}
    /\ latest' = Store(latest, s.key, InFlight)
    /\ arrivedSince' = [arrivedSince EXCEPT ![s.key] = TRUE]
    /\ UNCHANGED nonNodeVars
    /\ UNCHANGED <<sessionOpen, nextSample, subVars, workerVars, takeVars>>

(* ---- take ---- *)

\* The history kept of a take on key k that returns r, having overwritten
\* the slot content c (None when it overwrote nothing):
\*   prevGot  the take before it on k returned a value
\*   arrived  _on_sample stored a sample for k since that take returned
\*   got      this take returned a value
\*   known    k was in _latest_values, i.e. a sample for k was received before
\*   lost     this take overwrote a sample other than the one it returned
TakeReturns(k, r, c) ==
    /\ takeObs' = [prevGot |-> lastGot[k], arrived |-> arrivedSince[k],
                   got |-> r # None, known |-> latest[k] # Absent,
                   lost |-> (c # None /\ c # r)]
    /\ lastGot' = [lastGot EXCEPT ![k] = (r # None)]
    /\ arrivedSince' = [arrivedSince EXCEPT ![k] = FALSE]

\* BaseNode.take, first half: the membership test and
\* value = self._latest_values[full_key]; a key not in the dict returns None.
TakeRead(topic) ==
    LET k == MakeKey(NodeRobot, NodeGroup, topic)
    IN  /\ LoopFree
        /\ IF latest[k] # Absent
           THEN /\ takePc' = "read"
                /\ takeKey' = k
                /\ takeVal' = latest[k]
                /\ UNCHANGED <<lastGot, takeObs, arrivedSince>>
           ELSE /\ TakeReturns(k, None, None)
                /\ UNCHANGED <<takePc, takeKey, takeVal>>
        /\ UNCHANGED nonNodeVars
        /\ UNCHANGED <<latest, sessionOpen, pending, nextSample, subVars, workerVars>>

\* A plausible slip: take returns the value without consuming it.
ConsumeNothing(slots, k) == slots

\* take: self._latest_values[full_key] = None  # Consume the value
Consume(slots, k) == [slots EXCEPT ![k] = None]

\* BaseNode.take, second half: the clear and return value.
TakeClear ==
    /\ takePc = "read"
    /\ latest' = Consume(latest, takeKey)
    /\ TakeReturns(takeKey, takeVal, latest[takeKey])
    /\ takePc' = "idle"
    /\ takeKey' = NoKey
    /\ takeVal' = None
    /\ UNCHANGED nonNodeVars
    /\ UNCHANGED <<sessionOpen, pending, nextSample, subVars, workerVars>>

(* ---- worker, start, stop ---- *)

Alive(t) == t.st \notin DoneStates

\* BaseNode.start(): task = asyncio.create_task(self.run()); self.tasks.append(task).
\* The task is only scheduled here; it first runs when the loop gets to it.
StartCall ==
    /\ LoopFree
    /\ Len(tasks) < MaxStarts
    /\ tasks' = Append(tasks, [st |-> "created", cancel |-> FALSE, steps |-> 0])
    /\ stoppedSince' = FALSE
    /\ UNCHANGED <<running, stopCalls>>

Start ==
    /\ StartCall
    /\ UNCHANGED nonNodeVars
    /\ UNCHANGED <<latest, sessionOpen, pending, nextSample, subVars, takeVars, histVars>>

\* One more step() counted, up to MaxSteps.
Counted(n) == IF n < MaxSteps THEN n + 1 ELSE n

\* run(): await self.step(), then await asyncio.sleep(...). Nothing catches
\* an exception of step(): it ends run() and with it the task.
AfterStep(t, outcome) ==
    [t EXCEPT !.st = IF outcome = "raise" THEN "failed" ELSE "sleeping",
              !.steps = Counted(@)]

\* A plausible slip: a task cancelled before its first run still begins run().
StartableThoughCancelled(t) == t.st = "created"

\* asyncio.create_task(self.run()) followed by task.cancel() before the loop
\* ran the task: CancelledError is thrown into the coroutine before its first
\* statement, so run() begins only in a task nobody cancelled.
Startable(t) == t.st = "created" /\ ~t.cancel

\* BaseNode.run() from the task's first run up to its first suspension:
\* self._running = True, the loop test, one step().
TaskBegin(i, outcome) ==
    /\ LoopFree
    /\ i \in DOMAIN tasks
    /\ Startable(tasks[i])
    /\ running' = TRUE
    /\ tasks' = [tasks EXCEPT ![i] = AfterStep(@, outcome)]
    /\ UNCHANGED <<stopCalls, stoppedSince>>
    /\ UNCHANGED nonNodeVars
    /\ UNCHANGED <<latest, sessionOpen, pending, nextSample, subVars, takeVars, histVars>>

\* BaseNode.run() resumed after its sleep: while self._running: step(); sleep.
TaskResume(i, outcome) ==
    /\ LoopFree
    /\ i \in DOMAIN tasks
    /\ tasks[i].st = "sleeping"
    /\ ~tasks[i].cancel
    /\ tasks' = [tasks EXCEPT ![i] =
                    IF running THEN AfterStep(@, outcome) ELSE [@ EXCEPT !.st = "finished"]]
    /\ UNCHANGED <<running, stopCalls, stoppedSince>>
    /\ UNCHANGED nonNodeVars
    /\ UNCHANGED <<latest, sessionOpen, pending, nextSample, subVars, takeVars, histVars>>

\* A task whose cancellation was requested gets CancelledError the next time
\* the loop runs it: at its first run, or in asyncio.sleep.
TaskCancelled(i) ==
    /\ LoopFree
    /\ i \in DOMAIN tasks
    /\ Alive(tasks[i])
    /\ tasks[i].cancel
    /\ tasks' = [tasks EXCEPT ![i].st = "cancelled"]
    /\ UNCHANGED <<running, stopCalls, stoppedSince>>
    /\ UNCHANGED nonNodeVars
    /\ UNCHANGED <<latest, sessionOpen, pending, nextSample, subVars, takeVars, histVars>>

\* A plausible slip: stop() clears the flag and cancels nothing.
CancelNothing(t) == t

\* task.cancel(): a request; the task is done only once the loop has run it.
CancelRequested(t) == IF Alive(t) THEN [t EXCEPT !.cancel = TRUE] ELSE t

\* for sub in self._subscribers.values(): sub.close()
CloseStored(live) == {s \in live : \A k \in FullKeys : subscribers[k] # s.id}

\* A plausible slip: the session is left open, and what was declared on it
\* and not closed goes on being served.
CloseSessionLeavesDeclared(live) == live

\* self.z.close(): the session ends, and with it whatever was declared on it.
CloseSession(live) == {}

\* The handles stop() goes through: self._subscribers.values().
StoredHandles == {subscribers[k] : k \in FullKeys} \ {Absent}

\* No sub.close() raises.
NoHandle == 0

\* BaseNode.stop(): clear the flag, cancel the tasks, close the stored
\* handles, close the session. stop() awaits nothing and catches nothing:
\* when sub.close() raises for the handle `failing`, after the handles of
\* closedFirst were closed, stop() ends there and self.z.close() is not
\* reached. Whether a close raises is the transport's decision.
StopCall(failing, closedFirst) ==
    /\ LoopFree
    /\ stopCalls < MaxStops
    /\ running' = FALSE
    /\ tasks' = [i \in DOMAIN tasks |-> CancelRequested(tasks[i])]
    /\ stopCalls' = stopCalls + 1
    /\ IF failing = NoHandle
       THEN /\ closedFirst = StoredHandles
            /\ liveSubs' = CloseSession(CloseStored(liveSubs))
            /\ sessionOpen' = FALSE
            /\ pending' = {}
            /\ stoppedSince' = TRUE
            /\ UNCHANGED stopRaised
       ELSE /\ failing \in StoredHandles
            /\ closedFirst \subseteq StoredHandles \ {failing}
            /\ liveSubs' = {s \in liveSubs : s.id \notin closedFirst}
            /\ pending' = pending \ closedFirst
            /\ stopRaised' = TRUE
            /\ UNCHANGED <<sessionOpen, stoppedSince>>
    /\ UNCHANGED nonStopVars
    /\ UNCHANGED <<latest, subscribers, callbacks, nextSub, nextSample, takeVars, histVars>>

\* stop() on a transport whose close calls succeed.
Stop == StopCall(NoHandle, StoredHandles)

\* One node subscribing, started, its workers running, and stopped, on a
\* transport whose close calls may raise.
StopNext ==
    \/ \E t \in NodeTopics, cb \in Callbacks \cup {NoCallback}, d \in BOOLEAN :
          Subscribe(t, cb, d)
    \/ Start
    \/ \E i \in 1..MaxStarts, o \in {"ok", "raise"} : TaskBegin(i, o)
    \/ \E i \in 1..MaxStarts, o \in {"ok", "raise"} : TaskResume(i, o)
    \/ \E i \in 1..MaxStarts : TaskCancelled(i)
    \/ \E f \in {NoHandle} \cup (1..MaxSubs), c \in SUBSET (1..MaxSubs) : StopCall(f, c)

StopInit == stopRaised = FALSE

(* ---- _on_sample, statement by statement ---- *)

\* No _on_sample call was made yet.
NoSub == [id |-> 0, key |-> NoKey, cb |-> NoCallback]

DispInit ==
    /\ dPc = "idle"
    /\ dSub = NoSub
    /\ dVal = None
    /\ dIdx = 1
    /\ dCalls = << >>
    /\ dOwed = << >>
    /\ dEscaped = FALSE
    /\ dHits = << >>

\* _on_sample, first statement, on the transport's thread for subscription
\* s: self._latest_values[full_key] = sample.value. The thread hands out
\* one sample at a time.
SampleStore(s) ==
    /\ dPc = "idle"
    /\ s \in liveSubs
    /\ s.id \in pending
    /\ pending' = pending \ {s.id}
    /\ latest' = Store(latest, s.key, InFlight)
    /\ arrivedSince' = [arrivedSince EXCEPT ![s.key] = TRUE]
    /\ dPc' = "callback"
    /\ dSub' = s
    /\ dVal' = InFlight
    /\ dIdx' = 1
    /\ dCalls' = << >>
    /\ dOwed' = << >>
    /\ dHits' = IF InFlight = dVal THEN dHits ELSE << >>
    /\ UNCHANGED dEscaped
    /\ UNCHANGED nonDispVars
    /\ UNCHANGED <<sessionOpen, nextSample, subVars, workerVars, takeVars>>

\* One user callback invoked with sample.value; slot is what a take made
\* from inside it would find in the latest-value slot.
Invoked(calls, cb) ==
    Append(calls, [cb |-> cb, arg |-> dVal, slot |-> latest[dSub.key]])

\* _on_sample has no try: an exception of a callback leaves it.
Leaves(outcome) == outcome = "raise"

\* The call ends with an exception in the transport's thread. Whether the
\* transport goes on serving the subscription after that is not decided
\* by this code: both outcomes are modelled (kept).
SampleAbort(kept) ==
    /\ dPc' = "idle"
    /\ dEscaped' = TRUE
    /\ dOwed' = Dispatched(dSub)
    /\ liveSubs' = IF kept THEN liveSubs ELSE liveSubs \ {dSub}
    /\ UNCHANGED dIdx

\* _on_sample: if callback: callback(sample.value)
SampleCallback(outcome, kept) ==
    /\ dPc = "callback"
    /\ IF dSub.cb = NoCallback
       THEN /\ outcome = "ok"
            /\ kept
            /\ dPc' = "handlers"
            /\ UNCHANGED <<dCalls, dOwed, dEscaped, dIdx, liveSubs, dHits>>
       ELSE /\ dCalls' = Invoked(dCalls, dSub.cb)
            /\ dHits' = Append(dHits, dSub.cb)
            /\ IF Leaves(outcome)
               THEN SampleAbort(kept)
               ELSE /\ kept
                    /\ dPc' = "handlers"
                    /\ UNCHANGED <<dOwed, dEscaped, dIdx, liveSubs>>
    /\ UNCHANGED <<dSub, dVal>>
    /\ UNCHANGED nonDispVars
    /\ UNCHANGED <<latest, subscribers, callbacks, nextSub, sessionOpen, pending,
                   nextSample, workerVars, takeVars, histVars>>

\* _on_sample: for cb in self._callbacks[full_key]: cb(sample.value), one
\* turn of the loop.
SampleHandler(outcome, kept) ==
    /\ dPc = "handlers"
    /\ dIdx <= Len(callbacks[dSub.key])
    /\ dCalls' = Invoked(dCalls, callbacks[dSub.key][dIdx])
    /\ dHits' = Append(dHits, callbacks[dSub.key][dIdx])
    /\ IF Leaves(outcome)
       THEN SampleAbort(kept)
       ELSE /\ kept
            /\ dIdx' = dIdx + 1
            /\ UNCHANGED <<dPc, dOwed, dEscaped, liveSubs>>
    /\ UNCHANGED <<dSub, dVal>>
    /\ UNCHANGED nonDispVars
    /\ UNCHANGED <<latest, subscribers, callbacks, nextSub, sessionOpen, pending,
                   nextSample, workerVars, takeVars, histVars>>

\* _on_sample returns to the transport's thread.
SampleReturn ==
    /\ dPc = "handlers"
    /\ dIdx > Len(callbacks[dSub.key])
    /\ dPc' = "idle"
    /\ dOwed' = Dispatched(dSub)
    /\ UNCHANGED <<dSub, dVal, dIdx, dCalls, dEscaped, dHits>>
    /\ UNCHANGED nonDispVars
    /\ UNCHANGED nodeVars

\* The topic the node of the dispatch specification uses.
DispatchTopic == <<"t">>

\* One node receiving samples on one key, with callbacks that return or
\* raise, while the event loop takes from the slot.
DispatchNext ==
    \/ \E cb \in Callbacks \cup {NoCallback}, d \in BOOLEAN : Subscribe(DispatchTopic, cb, d)
    \/ \E cb \in Callbacks : RegisterCallback(DispatchTopic, cb)
    \/ Publish(MakeKey(NodeRobot, NodeGroup, DispatchTopic))
    \/ \E s \in liveSubs : SampleStore(s)
    \/ \E o \in {"ok", "raise"}, kept \in BOOLEAN : SampleCallback(o, kept)
    \/ \E o \in {"ok", "raise"}, kept \in BOOLEAN : SampleHandler(o, kept)
    \/ SampleReturn
    \/ TakeRead(DispatchTopic)
    \/ TakeClear

(* ---- run(): the pacing of the loop ---- *)

\* Bounds of the pacing specification, in clock ticks.
MaxIters == 3       \* iterations of run()'s loop that are followed
MaxStepTime == 3    \* longest step()
MaxLate == 1        \* longest delay of the loop in resuming a task that is due

\* 1.0 / self.hz for the rates a node is given (hz > 0).
Periods == {1, 2}

Max(a, b) == IF a >= b THEN a ELSE b

\* No worker task exists.
PaceIdle ==
    /\ pPeriod = 1
    /\ pClock = 0
    /\ pFlag = FALSE
    /\ pPc = "created"
    /\ pLast = 0
    /\ pSleep = 0
    /\ pLog = << >>

\* start() has created the task of a node with some rate.
PaceInit ==
    /\ pPeriod \in Periods
    /\ pClock = 0
    /\ pFlag = FALSE
    /\ pPc = "created"
    /\ pLast = 0
    /\ pSleep = 0
    /\ pLog = << >>

\* A plausible slip: the remaining time is not clamped at zero.
LoopSleepTimeUnclamped(period, elapsed) == period - elapsed

\* run(): sleep_time = max(0, (1.0 / self.hz) - elapsed)
LoopSleepTime(period, elapsed) == Max(0, period - elapsed)

\* await asyncio.sleep(delay) entered at time t: the task is due at
\* t + delay (at once for a delay that is not positive) and is resumed
\* when the loop gets to it, `late` ticks after that.
SleepReturns(t, delay, late) == t + Max(0, delay) + late

\* run(), the task's first run: self._running = True; last_time = time.time()
PaceEnter ==
    /\ pPc = "created"
    /\ pFlag' = TRUE
    /\ pLast' = pClock
    /\ pPc' = "loop"
    /\ UNCHANGED <<pPeriod, pClock, pSleep, pLog>>
    /\ UNCHANGED nonPaceVars

\* One turn of run()'s loop up to its sleep: the test of self._running,
\* await self.step() taking d ticks, elapsed = time.time() - last_time and
\* sleep_time. No statement lies between the reading of last_time and the
\* invocation of step(), so step() starts at the tick last_time was read.
PaceStep(d) ==
    LET t1 == pClock + d
        sleep_time == LoopSleepTime(pPeriod, t1 - pLast)
    IN  /\ pPc = "loop"
        /\ pFlag
        /\ Len(pLog) < MaxIters
        /\ pClock' = t1
        /\ pSleep' = sleep_time
        /\ pLog' = Append(pLog, [t0 |-> pLast, start |-> pClock, t1 |-> t1,
                                 sleep |-> sleep_time])
        /\ pPc' = "sleep"
        /\ UNCHANGED <<pPeriod, pFlag, pLast>>
        /\ UNCHANGED nonPaceVars

\* await asyncio.sleep(sleep_time) returns; last_time = time.time()
PaceWake(late) ==
    /\ pPc = "sleep"
    /\ pClock' = SleepReturns(pClock, pSleep, late)
    /\ pLast' = pClock'
    /\ pPc' = "loop"
    /\ UNCHANGED <<pPeriod, pFlag, pSleep, pLog>>
    /\ UNCHANGED nonPaceVars

\* stop() while the task is suspended: self._running = False and
\* task.cancel(); the task gets CancelledError where it is suspended and
\* run() executes no further statement.
PaceStop ==
    /\ pPc \in {"created", "sleep"}
    /\ pFlag' = FALSE
    /\ pPc' = "done"
    /\ UNCHANGED <<pPeriod, pClock, pLast, pSleep, pLog>>
    /\ UNCHANGED nonPaceVars

PaceNext ==
    \/ PaceEnter
    \/ \E d \in 0..MaxStepTime : PaceStep(d)
    \/ \E late \in 0..MaxLate : PaceWake(late)
    \/ PaceStop

(* ------------------------------------------------------------------ *)
(* Serialization: tide/models/serialization.py                          *)
(* ------------------------------------------------------------------ *)

\* Largest field value of the values that are serialized (one digit).
MaxDigit == 3

\* Pydantic message classes with two numeric fields x and y.
ModelClasses == {"Vector2", "DummyModel"}

\* The values given to to_zenoh_value: instances of the message classes
\* and plain dictionaries {"x": ..., "y": ...}.
SerialValues ==
    {[kind |-> "model", cls |-> c, x |-> a, y |-> b] :
        c \in ModelClasses, a \in 0..MaxDigit, b \in 0..MaxDigit}
      \cup {[kind |-> "dict", cls |-> "dict", x |-> a, y |-> b] :
              a \in 0..MaxDigit, b \in 0..MaxDigit}

\* model.model_dump_json() of a message with fields x and y: the code
\* points of the JSON text {"x":a,"y":b}.
ModelDumpJson(m) ==
    <<123, 34, 120, 34, 58, 48 + m.x, 44, 34, 121, 34, 58, 48 + m.y, 125>>

\* "Nothing": no value was produced.
NoValue == [kind |-> "none", cls |-> "none", x |-> 0, y |-> 0]

SerIdle ==
    /\ sIn = NoValue
    /\ sCls = "none"
    /\ sPc = "start"
    /\ sBytes = << >>
    /\ sBack = NoValue

\* A caller about to send value sIn and to decode it as type(sIn), or a
\* caller about to decode as dict the JSON bytes a peer sent for the
\* dictionary sIn.
SerInit ==
    /\ sIn \in SerialValues
    /\ sCls = sIn.cls
    /\ \/ /\ sPc = "start"
          /\ sBytes = << >>
       \/ /\ sIn.kind = "dict"
          /\ sPc = "encoded"
          /\ sBytes = Utf8(ModelDumpJson(sIn))
    /\ sBack = NoValue

\* to_json(model): model_dump_json() of a pydantic model. Any other value
\* has no model_dump_json; the except clause then calls vars(model), which
\* raises TypeError for a value without __dict__ such as a dict, and that
\* exception leaves to_json.
ToJson(model) ==
    IF model.kind = "model"
    THEN [ok |-> TRUE, text |-> ModelDumpJson(model)]
    ELSE [ok |-> FALSE, text |-> << >>]

\* to_zenoh_value(model): to_json(model).encode('utf-8')
ToZenohValue(model) ==
    LET j == ToJson(model)
    IN  [ok |-> j.ok, bytes |-> Utf8(j.text)]

\* json.loads of the text of an object with the one-digit members x and y.
JsonLoads(text) == [x |-> text[6] - 48, y |-> text[12] - 48]

\* model_class.model_validate(data) of a message class.
ModelValidate(cls, data) == [kind |-> "model", cls |-> cls, x |-> data.x, y |-> data.y]

\* from_zenoh_value(data, model_class): decode, json.loads, model_validate.
\* dict has no model_validate; the except clause then builds dict() and
\* calls setattr on it, which raises AttributeError out of the function.
FromZenohValue(data, cls) ==
    IF cls \in ModelClasses
    THEN [ok |-> TRUE, value |-> ModelValidate(cls, JsonLoads(data))]
    ELSE [ok |-> FALSE, value |-> NoValue]

\* val = to_zenoh_value(sIn)
SerEncode ==
    LET r == ToZenohValue(sIn)
    IN  /\ sPc = "start"
        /\ sPc' = IF r.ok THEN "encoded" ELSE "raised"
        /\ sBytes' = r.bytes
        /\ UNCHANGED <<sIn, sCls, sBack>>
        /\ UNCHANGED nonSerVars

\* restored = from_zenoh_value(val, type(sIn))
SerDecode ==
    LET r == FromZenohValue(sBytes, sCls)
    IN  /\ sPc = "encoded"
        /\ sPc' = IF r.ok THEN "decoded" ELSE "raised"
        /\ sBack' = r.value
        /\ UNCHANGED <<sIn, sCls, sBytes>>
        /\ UNCHANGED nonSerVars

SerNext ==
    \/ SerEncode
    \/ SerDecode

(* ---- the environment of the launcher ---- *)

\* TIDE_RECORD_BAG is not set.
EnvIdle == envRecordBag = FALSE

\* A process launched with or without TIDE_RECORD_BAG.
EnvInit == envRecordBag \in BOOLEAN

(* ------------------------------------------------------------------ *)
(* Pose estimator node: tide/components/pose_estimator.py              *)
(* ------------------------------------------------------------------ *)

\* Bound of the estimator specification.
MaxTicks == 2       \* step() calls

\* What the transport caches on the node's two topics: dicts that validate
\* as the topic's model, and one that does not.
ValidDicts == {1, 2}
MalformedDict == 3
CachedDicts == ValidDicts \cup {MalformedDict}

\* A coroutine object: what calling an `async def` function returns.
Coroutine == -2

\* PoseEstimatorNode.__init__: both topics subscribed, no twist remembered.
EstInit ==
    /\ eTwist = Absent
    /\ eMeas = Absent
    /\ eLastTwist = None
    /\ eValidSeen = FALSE
    /\ eLog = << >>

EstIdle == EstInit

\* _on_sample of the twist subscription: the slot is overwritten.
EstTwistSample(v) ==
    /\ eTwist' = v
    /\ eValidSeen' = (eValidSeen \/ v \in ValidDicts)
    /\ UNCHANGED <<eMeas, eLastTwist, eLog>>
    /\ UNCHANGED nonEstVars

\* _on_sample of the measurement subscription.
EstMeasSample(v) ==
    /\ eMeas' = v
    /\ UNCHANGED <<eTwist, eLastTwist, eValidSeen, eLog>>
    /\ UNCHANGED nonEstVars

\* self.take(topic) written without await in the synchronous step():
\* BaseNode.take is `async def`, so the call returns a coroutine object and
\* take's body does not run: the slot is neither read nor cleared.
TakeNotAwaited(slot) == [value |-> Coroutine, slot |-> slot]

\* self.put(topic, value) written without await: BaseNode.put is `async def`,
\* its body (self.z.put) does not run. The number of messages published.
PutNotAwaited == 0

\* cls.model_validate(x) raises unless x is a dict of the model's fields.
ModelValidateRaises(x) == x \notin ValidDicts

\* step(), lines 124-129: the twist remembered after the take.
LastTwistAfter(twist_dict, last_twist) ==
    IF twist_dict # None /\ ~ModelValidateRaises(twist_dict) THEN twist_dict ELSE last_twist

\* step(), lines 131-166, as the sequence of calls it makes on the estimator
\* and the session.
StepCalls(last_twist, meas_dict, puts) ==
    (IF last_twist # None THEN <<"propagate">> ELSE << >>)
    \o (IF meas_dict # None /\ ~ModelValidateRaises(meas_dict) THEN <<"update">> ELSE << >>)
    \o [i \in 1..puts |-> "publish"]

\* One tick: PoseEstimatorNode.step().
EstStep ==
    LET tw == TakeNotAwaited(eTwist)
        ms == TakeNotAwaited(eMeas)
        last == LastTwistAfter(tw.value, eLastTwist)
    IN  /\ Len(eLog) < MaxTicks
        /\ eTwist' = tw.slot
        /\ eMeas' = ms.slot
        /\ eLastTwist' = last
        /\ eLog' = Append(eLog, [twist |-> eTwist, meas |-> eMeas, seen |-> eValidSeen,
                                 twistLeft |-> tw.slot, measLeft |-> ms.slot,
                                 calls |-> StepCalls(last, ms.value, PutNotAwaited)])
        /\ UNCHANGED eValidSeen
        /\ UNCHANGED nonEstVars

\* The estimator node ticking while twists and measurements arrive.
EstNext ==
    \/ \E v \in CachedDicts : EstTwistSample(v)
    \/ \E v \in CachedDicts : EstMeasSample(v)
    \/ EstStep

(* ------------------------------------------------------------------ *)
(* RosbagPlayer._sleep_with_stop, statement by statement               *)
(* ------------------------------------------------------------------ *)

\* Bounds of the wait specification.
MaxWait == 5        \* longest duration asked for, in ticks
MaxBefore == 2      \* ticks that pass before the call

\* min(remaining, 0.05): 0.05 s, in ticks of 25 ms.
SleepChunk == 2

WaitIdle ==
    /\ wPc = "idle"
    /\ wClock = 0
    /\ wEnd = 0
    /\ wStop = FALSE
    /\ wWake = 0
    /\ wStopAt = NoTime
    /\ wChunks = << >>
    /\ wReturnedAt = NoTime
    /\ wBegan = NoTime

WaitInit == WaitIdle

\* Time passes before _sleep_with_stop is called.
WaitBefore ==
    /\ wPc = "idle"
    /\ wClock < MaxBefore
    /\ wClock' = wClock + 1
    /\ UNCHANGED <<wPc, wEnd, wStop, wWake, wStopAt, wChunks, wReturnedAt, wBegan>>
    /\ UNCHANGED nonWaitVars

\* _sleep_with_stop(duration): end = time.time() + duration
WaitCall(duration) ==
    /\ wPc = "idle"
    /\ wPc' = "test"
    /\ wEnd' = wClock + duration
    /\ wBegan' = wClock
    /\ UNCHANGED <<wClock, wStop, wWake, wStopAt, wChunks, wReturnedAt>>
    /\ UNCHANGED nonWaitVars

\* A plausible slip: one sleep for all that remains.
ChunkWhole(remaining) == remaining

\* min(remaining, 0.05)
Chunk(remaining) == IF remaining < SleepChunk THEN remaining ELSE SleepChunk

\* while not self._stop_event.is_set(): remaining = end - time.time();
\* if remaining <= 0: break; time.sleep(min(remaining, 0.05)) is entered.
WaitTest ==
    LET remaining == wEnd - wClock
    IN  /\ wPc = "test"
        /\ IF wStop \/ remaining <= 0
           THEN /\ wPc' = "returned"
                /\ wReturnedAt' = wClock
                /\ UNCHANGED <<wWake, wChunks>>
           ELSE /\ wPc' = "asleep"
                /\ wWake' = wClock + Chunk(remaining)
                /\ wChunks' = Append(wChunks, Chunk(remaining))
                /\ UNCHANGED wReturnedAt
        /\ UNCHANGED <<wClock, wEnd, wStop, wStopAt, wBegan>>
        /\ UNCHANGED nonWaitVars

\* Time passes inside time.sleep, which returns when the time asked for is over.
WaitAsleep ==
    /\ wPc = "asleep"
    /\ wClock < wWake
    /\ wClock' = wClock + 1
    /\ UNCHANGED <<wPc, wEnd, wStop, wWake, wStopAt, wChunks, wReturnedAt, wBegan>>
    /\ UNCHANGED nonWaitVars

\* time.sleep returns: back to the while test.
WaitWake ==
    /\ wPc = "asleep"
    /\ wClock = wWake
    /\ wPc' = "test"
    /\ UNCHANGED <<wClock, wEnd, wStop, wWake, wStopAt, wChunks, wReturnedAt, wBegan>>
    /\ UNCHANGED nonWaitVars

\* RosbagPlayer.stop(), on another thread: self._stop_event.set()
WaitStop ==
    /\ ~wStop
    /\ wPc # "returned"
    /\ wStop' = TRUE
    /\ wStopAt' = wClock
    /\ UNCHANGED <<wPc, wClock, wEnd, wWake, wChunks, wReturnedAt, wBegan>>
    /\ UNCHANGED nonWaitVars

\* One wait of the player thread, with stop() called at any moment.
WaitNext ==
    \/ WaitBefore
    \/ \E d \in 1..MaxWait : WaitCall(d)
    \/ WaitTest
    \/ WaitAsleep
    \/ WaitWake
    \/ WaitStop

(* ------------------------------------------------------------------ *)
(* Launcher: tide/core/utils.py launch_from_config, main.py             *)
(* ------------------------------------------------------------------ *)

\* Bound of the launcher specification.
MaxEntries == 2     \* entries of config["nodes"]

\* Session modes a configuration may name; "unknown" is none of the valid ones.
ValidModes == {"peer", "client", "router"}
ConfigModes == {"peer", "unknown"}

\* Node types: one that import_class resolves and one it does not.
KnownTypes == {"behaviors.TeleopNode"}
ConfigTypes == {"behaviors.TeleopNode", "missing.Node"}

\* params of an entry: a mapping, as a set of (key, value) pairs, or YAML
\* null (none); an entry may also have no "params" key at all.
NoParams == [none |-> TRUE, map |-> {}]
ParamValues ==
    { [none |-> FALSE, map |-> {}],
      [none |-> FALSE, map |-> {<<"robot_id", "a">>}],
      NoParams }

ConfigEntries ==
    {[type |-> t, hasParams |-> TRUE, params |-> q] : t \in ConfigTypes, q \in ParamValues}
        \cup {[type |-> t, hasParams |-> FALSE, params |-> NoParams] : t \in ConfigTypes}

RECURSIVE EntriesUpTo(_)
EntriesUpTo(n) ==
    IF n = 0 THEN {<< >>}
    ELSE LET shorter == EntriesUpTo(n - 1)
         IN  shorter \cup {Append(c, e) : c \in {x \in shorter : Len(x) = n - 1},
                                          e \in ConfigEntries}

\* No launch and no main in progress, on an empty configuration.
LaunchIdle ==
    /\ cfgMode = "peer"
    /\ cfgNodes = << >>
    /\ lPc = "idle"
    /\ lIdx = 1
    /\ lNodes = << >>
    /\ lResult = << >>
    /\ lOpened = 0
    /\ lSessions = {}
    /\ mainDryRun = FALSE
    /\ mainPc = "start"
    /\ mainNodes = "unset"

\* A process about to launch some configuration.
LaunchInit ==
    /\ cfgMode \in ConfigModes
    /\ cfgNodes \in EntriesUpTo(MaxEntries)
    /\ lPc = "idle"
    /\ lIdx = 1
    /\ lNodes = << >>
    /\ lResult = << >>
    /\ lOpened = 0
    /\ lSessions = {}
    /\ mainDryRun \in BOOLEAN
    /\ mainPc = "start"
    /\ mainNodes = "unset"

\* import_class(f"tide.{type}") finds the class.
Resolvable(type) == type \in KnownTypes

\* node_config.get("params", {})
ParamsOf(entry) ==
    IF entry.hasParams THEN entry.params ELSE [none |-> FALSE, map |-> {}]

\* A plausible slip: the node is built without its params.
NodeConfigEmpty(params) == {}

\* BaseNode.__init__: self.config = config or {}
NodeConfig(params) == IF params.none \/ params.map = {} THEN {} ELSE params.map

\* launch_from_config is entered by a coroutine awaiting it: nodes = [],
\* session_config read and not used.
LaunchBegin ==
    /\ lPc = "idle"
    /\ lPc' = "loop"
    /\ lIdx' = 1
    /\ lNodes' = << >>
    /\ UNCHANGED <<cfgMode, cfgNodes, lResult, lOpened, lSessions, mainDryRun, mainPc,
                   mainNodes>>
    /\ UNCHANGED nonLaunchVars

\* One turn of the loop: create_node resolves the class (an unresolvable
\* type raises out of launch_from_config) and constructs the node, whose
\* __init__ opens a session with zenoh.open(); node.start(); nodes.append.
LaunchEntry ==
    LET entry == cfgNodes[lIdx]
    IN  /\ lPc = "loop"
        /\ lIdx <= Len(cfgNodes)
        /\ IF ~Resolvable(entry.type)
           THEN /\ lPc' = "raised"
                /\ UNCHANGED <<lIdx, lNodes, lOpened, lSessions>>
           ELSE /\ lOpened' = lOpened + 1
                /\ lSessions' = lSessions \cup {lOpened + 1}
                /\ lNodes' = Append(lNodes, [entry |-> lIdx,
                                             config |-> NodeConfig(ParamsOf(entry)),
                                             session |-> lOpened + 1,
                                             starts |-> 1, stops |-> 0])
                /\ lIdx' = lIdx + 1
                /\ UNCHANGED lPc
        /\ UNCHANGED <<cfgMode, cfgNodes, lResult, mainDryRun, mainPc, mainNodes>>
        /\ UNCHANGED nonLaunchVars

\* return nodes
LaunchReturn ==
    /\ lPc = "loop"
    /\ lIdx > Len(cfgNodes)
    /\ lPc' = "returned"
    /\ lResult' = lNodes
    /\ UNCHANGED <<cfgMode, cfgNodes, lIdx, lNodes, lOpened, lSessions, mainDryRun, mainPc,
                   mainNodes>>
    /\ UNCHANGED nonLaunchVars

\* await node.stop() on a launched node: its own session self.z is closed.
StopNode(i) ==
    /\ lPc \in {"returned", "raised"}
    /\ i \in DOMAIN lNodes
    /\ lNodes[i].stops = 0
    /\ lNodes' = [lNodes EXCEPT ![i].stops = 1]
    /\ lSessions' = lSessions \ {lNodes[i].session}
    /\ UNCHANGED <<cfgMode, cfgNodes, lPc, lIdx, lResult, lOpened, mainDryRun, mainPc,
                   mainNodes>>
    /\ UNCHANGED nonLaunchVars

\* main(), --dry-run: the configuration is printed, return 0.
MainDryRun ==
    /\ mainPc = "start"
    /\ mainDryRun
    /\ mainPc' = "exit0"
    /\ UNCHANGED <<cfgMode, cfgNodes, lPc, lIdx, lNodes, lResult, lOpened, lSessions,
                   mainDryRun, mainNodes>>
    /\ UNCHANGED nonLaunchVars

\* main(): nodes = launch_from_config(config). launch_from_config is a
\* coroutine function and the call is not awaited: nodes is a coroutine
\* object and no statement of launch_from_config has run.
MainLaunch ==
    /\ mainPc = "start"
    /\ ~mainDryRun
    /\ mainPc' = "launched"
    /\ mainNodes' = "coroutine"
    /\ UNCHANGED <<cfgMode, cfgNodes, lPc, lIdx, lNodes, lResult, lOpened, lSessions,
                   mainDryRun>>
    /\ UNCHANGED nonLaunchVars

\* main(): print(f"Started {len(nodes)} nodes..."). len() of a coroutine
\* raises TypeError, the except clause prints it, return 1. The signal
\* handler and the sleep loop below it are reached only with a list.
MainReport ==
    /\ mainPc = "launched"
    /\ mainPc' = IF mainNodes = "list" THEN "waiting" ELSE "exit1"
    /\ UNCHANGED <<cfgMode, cfgNodes, lPc, lIdx, lNodes, lResult, lOpened, lSessions,
                   mainDryRun, mainNodes>>
    /\ UNCHANGED nonLaunchVars

LaunchNext ==
    \/ LaunchBegin
    \/ LaunchEntry
    \/ LaunchReturn
    \/ \E i \in 1..MaxEntries : StopNode(i)
    \/ MainDryRun
    \/ MainLaunch
    \/ MainReport

(* ------------------------------------------------------------------ *)
(* Recorder, player and put: tide/core/rosbag.py, BaseNode.put          *)
(* ------------------------------------------------------------------ *)

\* record() callers (node workers, or any thread calling record_zenoh_message).
Callers == {"w1", "w2"}
\* close() callers.
Closers == {"c1", "c2"}

\* The queue's sentinel, None; entries are [topic, data, ts].
Sentinel == [topic |-> NoKey, data |-> << >>, ts |-> 0]
\* A caller that is not inside record().
Idle == [topic |-> NoKey, data |-> << >>, ts |-> -1]

\* RosbagRecorder.__init__ (the writer thread is started), RosbagPlayer.__init__,
\* and the module's _active_recorder = None.
BagInit ==
    /\ activeRecorder = FALSE
    /\ recClosed = FALSE
    /\ recQueue = << >>
    /\ writerSt = "running"
    /\ connections = {}
    /\ bag = << >>
    /\ now = 1
    /\ recPc = [c \in Callers |-> Idle]
    /\ closePc = [c \in Closers |-> "idle"]
    /\ recCalls = 0
    /\ published = << >>
    /\ lastPut = [key |-> NoKey, active |-> FALSE, handed |-> 0]
    /\ played = << >>
    /\ plSt = "idle"
    /\ plPos = 1
    /\ plStopEvent = FALSE
    /\ plError = FALSE
    /\ plPublishers = {}
    /\ plSession = FALSE

\* Bounds of the recorder specification.
MaxPuts == 2        \* BaseNode.put calls
MaxRecords == 2     \* record_zenoh_message calls
MaxTime == 2        \* clock readings

\* Nodes that publish: (ROBOT_ID, GROUP).
BagNodes == {[robot |-> <<"r">>, group |-> <<"g">>], [robot |-> <<"r">>, group |-> << >>]}
PutTopic == <<"t">>
BagKeys == {MakeKey(n.robot, n.group, PutTopic) : n \in BagNodes}

\* Values handed to put and record: bytes (as byte values), str (as code
\* points) and JSON-serialisable numbers.
BagPayloads ==
    { [kind |-> "bytes", val |-> << >>],
      [kind |-> "bytes", val |-> <<7>>],
      [kind |-> "str", val |-> <<233>>],
      [kind |-> "json", val |-> <<5>>] }

\* Values the publishing nodes put.
PutValues == {[kind |-> "bytes", val |-> <<7>>], [kind |-> "json", val |-> <<5>>]}

\* json.dumps(n).encode("utf-8") for a one-digit number n.
JsonDumps(v) == <<48 + v[1]>>

\* rosbag._ensure_bytes
EnsureBytes(payload) ==
    IF payload.kind = "bytes" THEN payload.val
    ELSE IF payload.kind = "str" THEN Utf8(payload.val)
    ELSE JsonDumps(payload.val)

\* typestore.serialize_cdr of a tide_msgs/msg/Raw: the length, then the bytes.
SerializeCdr(data) == <<Len(data)>> \o data

\* typestore.deserialize_cdr and bytes(msg.data)
DeserializeCdr(raw) == SubSeq(raw, 2, 1 + raw[1])

(* ---- put ---- *)

\* BaseNode.put(key, value): full_key = self._make_key(key);
\* await self.z.put(full_key, value). Nothing else is called: the recorder
\* is not consulted.
Put(n, value) ==
    LET full_key == MakeKey(n.robot, n.group, PutTopic)
    IN  /\ Len(published) < MaxPuts
        /\ published' = Append(published,
                               [key |-> full_key, value |-> value,
                                rec |-> activeRecorder /\ ~recClosed])
        /\ recCalls' = recCalls
        /\ lastPut' = [key |-> full_key, active |-> activeRecorder,
                       handed |-> recCalls' - recCalls]
        /\ UNCHANGED <<activeRecorder, recClosed, recQueue, writerSt, connections, bag,
                       now, recPc, closePc, played, plSt, plPos, plStopEvent, plError,
                       plPublishers, plSession>>
        /\ UNCHANGED nonBagVars

(* ---- recorder ---- *)

\* set_active_recorder(recorder)
SetActiveRecorder ==
    /\ ~activeRecorder
    /\ activeRecorder' = TRUE
    /\ UNCHANGED <<recClosed, recQueue, writerSt, connections, bag, now, recPc, closePc,
                   recCalls, published, lastPut, played, plSt, plPos, plStopEvent,
                   plError, plPublishers, plSession>>
    /\ UNCHANGED nonBagVars

\* clear_active_recorder()
ClearActiveRecorder ==
    /\ activeRecorder
    /\ activeRecorder' = FALSE
    /\ UNCHANGED <<recClosed, recQueue, writerSt, connections, bag, now, recPc, closePc,
                   recCalls, published, lastPut, played, plSt, plPos, plStopEvent,
                   plError, plPublishers, plSession>>
    /\ UNCHANGED nonBagVars

\* time advances between two readings of time.time_ns().
Tick ==
    /\ now < MaxTime
    /\ now' = now + 1
    /\ UNCHANGED <<activeRecorder, recClosed, recQueue, writerSt, connections, bag,
                   recPc, closePc, recCalls, published, lastPut, played, plSt, plPos,
                   plStopEvent, plError, plPublishers, plSession>>
    /\ UNCHANGED nonBagVars

\* A plausible slip: only the closed flag is tested.
RecordDropsClosedOnly(closed, data) == closed

\* record(): if self._closed: return; data = _ensure_bytes(payload);
\* if not data: return
RecordDrops(closed, data) == closed \/ data = << >>

\* record_zenoh_message(topic, payload) called by thread c, up to the
\* timestamp: return when no recorder is active; RosbagRecorder.record returns
\* when closed or when the payload converts to no bytes; else it reads the clock.
RecordBegin(c, topic, payload) ==
    /\ recPc[c] = Idle
    /\ recCalls < MaxRecords
    /\ IF ~activeRecorder
       THEN UNCHANGED <<recCalls, recPc>>
       ELSE /\ recCalls' = recCalls + 1
            /\ recPc' = IF RecordDrops(recClosed, EnsureBytes(payload))
                        THEN recPc
                        ELSE [recPc EXCEPT ![c] =
                                 [topic |-> topic, data |-> EnsureBytes(payload),
                                  ts |-> now]]
    /\ UNCHANGED <<activeRecorder, recClosed, recQueue, writerSt, connections, bag, now,
                   closePc, published, lastPut, played, plSt, plPos, plStopEvent,
                   plError, plPublishers, plSession>>
    /\ UNCHANGED nonBagVars

\* queue.Queue() is built with the default maxsize 0: no bound.
QueueMaxsize == 0

\* queue.Queue.put blocks only while maxsize > 0 and the queue holds maxsize items.
QueueHasRoom(q) == QueueMaxsize <= 0 \/ Len(q) < QueueMaxsize

\* record(): self._queue.put((topic, data, timestamp))
RecordEnqueue(c) ==
    /\ recPc[c] # Idle
    /\ QueueHasRoom(recQueue)
    /\ recQueue' = Append(recQueue, recPc[c])
    /\ recPc' = [recPc EXCEPT ![c] = Idle]
    /\ UNCHANGED <<activeRecorder, recClosed, writerSt, connections, bag, now, closePc,
                   recCalls, published, lastPut, played, plSt, plPos, plStopEvent,
                   plError, plPublishers, plSession>>
    /\ UNCHANGED nonBagVars

\* One turn of _run's loop: the sentinel ends the thread (finally: the writer
\* is closed); an entry gets its connection and is written.
WriterStep ==
    /\ writerSt = "running"
    /\ recQueue # << >>
    /\ recQueue' = Tail(recQueue)
    /\ IF Head(recQueue) = Sentinel
       THEN /\ writerSt' = "closed"
            /\ UNCHANGED <<connections, bag>>
       ELSE /\ connections' = connections \cup {Head(recQueue).topic}
            /\ bag' = Append(bag, [topic |-> Head(recQueue).topic,
                                   raw |-> SerializeCdr(Head(recQueue).data),
                                   ts |-> Head(recQueue).ts])
            /\ UNCHANGED writerSt
    /\ UNCHANGED <<activeRecorder, recClosed, now, recPc, closePc, recCalls, published,
                   lastPut, played, plSt, plPos, plStopEvent, plError, plPublishers,
                   plSession>>
    /\ UNCHANGED nonBagVars

\* close() by thread c up to the join: under the lock, return if closed, else
\* set _closed; then enqueue the sentinel.
CloseBegin(c) ==
    /\ closePc[c] = "idle"
    /\ IF recClosed
       THEN /\ closePc' = [closePc EXCEPT ![c] = "returned"]
            /\ UNCHANGED <<recClosed, recQueue>>
       ELSE /\ recClosed' = TRUE
            /\ recQueue' = Append(recQueue, Sentinel)
            /\ closePc' = [closePc EXCEPT ![c] = "joining"]
    /\ UNCHANGED <<activeRecorder, writerSt, connections, bag, now, recPc, recCalls,
                   published, lastPut, played, plSt, plPos, plStopEvent, plError,
                   plPublishers, plSession>>
    /\ UNCHANGED nonBagVars

\* close(): self._thread.join() returns once the writer thread has ended.
CloseReturn(c) ==
    /\ closePc[c] = "joining"
    /\ writerSt # "running"
    /\ closePc' = [closePc EXCEPT ![c] = "returned"]
    /\ UNCHANGED <<activeRecorder, recClosed, recQueue, writerSt, connections, bag, now,
                   recPc, recCalls, published, lastPut, played, plSt, plPos,
                   plStopEvent, plError, plPublishers, plSession>>
    /\ UNCHANGED nonBagVars

(* ---- record_zenoh_message, statement by statement ---- *)

\* A caller outside record_zenoh_message.
RzIdle == [st |-> "idle", topic |-> NoKey, payload |-> [kind |-> "bytes", val |-> << >>]]

CallInit ==
    /\ rzPc = [c \in Callers |-> RzIdle]
    /\ rzCaught = FALSE
    /\ rzEscaped = FALSE

\* Payloads handed to record_zenoh_message: bytes, empty bytes, the empty
\* string, and a self-referential list, on which json.dumps raises ValueError.
RecordPayloads ==
    { [kind |-> "bytes", val |-> <<7>>],
      [kind |-> "bytes", val |-> << >>],
      [kind |-> "str", val |-> << >>],
      [kind |-> "circular", val |-> << >>] }

\* _ensure_bytes raises: json.dumps raises ValueError on a circular
\* structure, and only TypeError is caught there.
EnsureBytesRaises(payload) == payload.kind = "circular"

\* A plausible slip: record_zenoh_message calls record() outside any try.
EscapesUncaught(raised) == raised

\* record_zenoh_message: try: ... except Exception: logger.exception(...).
\* Whatever the call raised is caught and logged; nothing leaves the function.
Escapes(raised) == FALSE

\* record_zenoh_message, first statement: if _active_recorder is None: return
RzCheck(c, topic, payload) ==
    /\ rzPc[c].st = "idle"
    /\ recPc[c] = Idle
    /\ recCalls < MaxRecords
    /\ rzPc' = IF activeRecorder
               THEN [rzPc EXCEPT ![c] = [st |-> "call", topic |-> topic, payload |-> payload]]
               ELSE rzPc
    /\ UNCHANGED <<rzCaught, rzEscaped>>
    /\ UNCHANGED bagVars
    /\ UNCHANGED nonCallVars

\* record_zenoh_message, second statement: _active_recorder.record(topic,
\* payload), reading the global again. A recorder cleared since the test
\* gives AttributeError on None; record() returns when closed or when the
\* payload converts to no bytes, raises what _ensure_bytes raises, and else
\* reads the clock.
RzCall(c) ==
    LET payload == rzPc[c].payload
        raised == ~activeRecorder \/ (~recClosed /\ EnsureBytesRaises(payload))
    IN  /\ rzPc[c].st = "call"
        /\ rzPc' = [rzPc EXCEPT ![c] = RzIdle]
        /\ rzCaught' = (rzCaught \/ (raised /\ ~Escapes(raised)))
        /\ rzEscaped' = (rzEscaped \/ Escapes(raised))
        /\ recCalls' = IF activeRecorder THEN recCalls + 1 ELSE recCalls
        /\ recPc' = IF raised \/ RecordDrops(recClosed, EnsureBytes(payload))
                    THEN recPc
                    ELSE [recPc EXCEPT ![c] =
                             [topic |-> rzPc[c].topic, data |-> EnsureBytes(payload),
                              ts |-> now]]
        /\ UNCHANGED <<activeRecorder, recClosed, recQueue, writerSt, connections, bag, now,
                       closePc, published, lastPut, played, plSt, plPos, plStopEvent,
                       plError, plPublishers, plSession>>
        /\ UNCHANGED nonCallVars

\* _run raises (the writer cannot open the bag, add a connection or write):
\* finally closes the writer and the thread ends with entries still queued.
WriterFail ==
    /\ writerSt = "running"
    /\ writerSt' = "failed"
    /\ UNCHANGED <<activeRecorder, recClosed, recQueue, connections, bag, now, recPc,
                   closePc, recCalls, published, lastPut, played, plSt, plPos,
                   plStopEvent, plError, plPublishers, plSession>>
    /\ UNCHANGED nonBagVars

(* ---- player ---- *)

\* bag_reader.messages(): the messages of a closed bag.
ReaderMessages == bag

\* RosbagPlayer.start(): nothing while the thread is alive; else clear the
\* stop and finished events and start _run. _error is left as it is.
PlayerStart ==
    /\ plSt \in {"idle", "finished"}
    /\ plSt' = "opening"
    /\ plStopEvent' = FALSE
    /\ played' = << >>
    /\ plPos' = 1
    /\ UNCHANGED <<activeRecorder, recClosed, recQueue, writerSt, connections, bag, now,
                   recPc, closePc, recCalls, published, lastPut, plError, plPublishers,
                   plSession>>
    /\ UNCHANGED nonBagVars

\* _run up to the loop: a bag that cannot be read (it is not closed yet) ends
\* the run with _error set and no session; else the session is opened.
PlayerOpen ==
    /\ plSt = "opening"
    /\ IF writerSt # "closed"
       THEN /\ plError' = TRUE
            /\ plSt' = "finished"
            /\ UNCHANGED plSession
       ELSE /\ plSession' = TRUE
            /\ plSt' = "reading"
            /\ UNCHANGED plError
    /\ UNCHANGED <<activeRecorder, recClosed, recQueue, writerSt, connections, bag, now,
                   recPc, closePc, recCalls, published, lastPut, played, plPos,
                   plStopEvent, plPublishers>>
    /\ UNCHANGED nonBagVars

\* One turn of _run's loop: the next message is deserialised, its publisher
\* declared if it is the topic's first, and the payload published.
PlayerEmit ==
    /\ plSt = "reading"
    /\ ~plStopEvent
    /\ plPos <= Len(ReaderMessages)
    /\ plPublishers' = plPublishers \cup {ReaderMessages[plPos].topic}
    /\ played' = Append(played, [topic |-> ReaderMessages[plPos].topic,
                                 data |-> DeserializeCdr(ReaderMessages[plPos].raw)])
    /\ plPos' = plPos + 1
    /\ UNCHANGED <<activeRecorder, recClosed, recQueue, writerSt, connections, bag, now,
                   recPc, closePc, recCalls, published, lastPut, plSt, plStopEvent,
                   plError, plSession>>
    /\ UNCHANGED nonBagVars

\* _run leaves the loop (no message left, or the stop event is set); finally:
\* publishers undeclared, session closed, finished set.
PlayerEnd ==
    /\ plSt = "reading"
    /\ plStopEvent \/ plPos > Len(ReaderMessages)
    /\ plPublishers' = {}
    /\ plSession' = FALSE
    /\ plSt' = "finished"
    /\ UNCHANGED <<activeRecorder, recClosed, recQueue, writerSt, connections, bag, now,
                   recPc, closePc, recCalls, published, lastPut, played, plPos,
                   plStopEvent, plError>>
    /\ UNCHANGED nonBagVars

\* RosbagPlayer.stop(): self._stop_event.set()
PlayerStop ==
    /\ plSt \in {"opening", "reading", "tosleep", "sleeping"}
    /\ ~plStopEvent
    /\ plStopEvent' = TRUE
    /\ UNCHANGED <<activeRecorder, recClosed, recQueue, writerSt, connections, bag, now,
                   recPc, closePc, recCalls, published, lastPut, played, plSt, plPos,
                   plError, plPublishers, plSession>>
    /\ UNCHANGED nonBagVars

(* ---- RosbagPlayer._run, statement by statement ---- *)

\* Bounds of the player specification.
MaxBagLen == 2      \* messages in the bag played back
MaxStamp == 2       \* largest bag timestamp

\* RosbagPlayer.__init__ as the other specifications use it: realtime off.
PlayInit ==
    /\ plRealtime = FALSE
    /\ plStartTs = NoTime
    /\ plStartWall = NoTime
    /\ plSleep = 0
    /\ plTarget = 0
    /\ plDecided = 0
    /\ plFailed = FALSE
    /\ plLog = << >>

\* The messages a recorded bag may hold: the writer's entries for one
\* payload, on either key, with any timestamp (C13: not always in order).
BagMessages ==
    {[topic |-> k, raw |-> SerializeCdr(<<7>>), ts |-> t] : k \in BagKeys, t \in 1..MaxStamp}

RECURSIVE BagsUpTo(_)
BagsUpTo(n) ==
    IF n = 0 THEN {<< >>}
    ELSE LET shorter == BagsUpTo(n - 1)
         IN  shorter \cup {Append(b, m) : b \in {x \in shorter : Len(x) = n - 1},
                                          m \in BagMessages}

\* A player constructed on a bag a recorder left behind: closed, or not
\* finalised (writerSt "running": the reader cannot open it).
PlayerBagInit ==
    /\ activeRecorder = FALSE
    /\ recClosed = TRUE
    /\ recQueue = << >>
    /\ writerSt \in {"closed", "running"}
    /\ connections = {}
    /\ bag \in BagsUpTo(MaxBagLen)
    /\ now = 1
    /\ recPc = [c \in Callers |-> Idle]
    /\ closePc = [c \in Closers |-> "idle"]
    /\ recCalls = 0
    /\ published = << >>
    /\ lastPut = [key |-> NoKey, active |-> FALSE, handed |-> 0]
    /\ played = << >>
    /\ plSt = "idle"
    /\ plPos = 1
    /\ plStopEvent = FALSE
    /\ plError = FALSE
    /\ plPublishers = {}
    /\ plSession = FALSE
    /\ plRealtime \in BOOLEAN
    /\ plStartTs = NoTime
    /\ plStartWall = NoTime
    /\ plSleep = 0
    /\ plTarget = 0
    /\ plDecided = 0
    /\ plFailed = FALSE
    /\ plLog = << >>

\* except (AnyReaderError, FileNotFoundError, WriterError, RuntimeError) as exc:
\* self._error = exc. An exception of a listed type ("listed", and "missing":
\* the FileNotFoundError of a bag path that does not exist) is stored; any
\* other ("other": zenoh's ZError, an error of the deserialiser) passes through.
ErrorStored(kind) == kind \in {"listed", "missing"}

\* _run up to the loop, by outcome: "ok"; "missing" (bag_path does not exist:
\* FileNotFoundError before anything is opened); "listed" (the bag cannot be
\* read, after the session was opened); "other" (zenoh.open raises).
RunOpen(outcome) ==
    /\ plSt = "opening"
    /\ (outcome = "ok") => writerSt = "closed"
    /\ (outcome \in {"listed", "missing"}) => writerSt # "closed"
    /\ plSt' = IF outcome = "ok" THEN "reading" ELSE "cleanup"
    /\ plSession' = (outcome \in {"ok", "listed"})
    /\ plError' = (plError \/ (outcome # "ok" /\ ErrorStored(outcome)))
    /\ plFailed' = (outcome # "ok")
    /\ plStartTs' = NoTime
    /\ plStartWall' = NoTime
    /\ plLog' = << >>
    /\ UNCHANGED <<plRealtime, plSleep, plTarget, plDecided>>
    /\ UNCHANGED <<activeRecorder, recClosed, recQueue, writerSt, connections, bag, now,
                   recPc, closePc, recCalls, published, lastPut, played, plPos,
                   plStopEvent, plPublishers>>
    /\ UNCHANGED nonPlayVars

\* A plausible slip: the newest message is put in front of the others.
EmittedInFront(out, m) == <<[topic |-> m.topic, data |-> DeserializeCdr(m.raw)]>> \o out

\* publisher.put(payload) of message m: what the player has published so far.
Emitted(out, m) == Append(out, [topic |-> m.topic, data |-> DeserializeCdr(m.raw)])

\* A plausible slip: the time already elapsed is not taken off the delay.
SleepTimeIgnoringElapsed(timestamp, start_timestamp, start_wall, t) ==
    timestamp - start_timestamp

\* delay = timestamp - start_timestamp; elapsed = time.time() - start_wall;
\* sleep_time = delay - elapsed (one unit of time for both clocks).
SleepTime(timestamp, start_timestamp, start_wall, t) ==
    (timestamp - start_timestamp) - (t - start_wall)

\* Declaring the topic's publisher if it is the first, and publisher.put.
RunPublish(m, decided, slept) ==
    /\ plPublishers' = plPublishers \cup {m.topic}
    /\ played' = Emitted(played, m)
    /\ plLog' = Append(plLog, [ts |-> m.ts, decided |-> decided, at |-> now,
                               slept |-> slept, stopped |-> plStopEvent])
    /\ plPos' = plPos + 1

\* One turn of the loop up to the sleep: the stop test, the deserialisation,
\* and in real-time mode the first message fixing (start_timestamp,
\* start_wall) or a later one computing its sleep_time. No sleep: published.
RunNext ==
    LET m == ReaderMessages[plPos]
        first == plStartTs = NoTime
        sleep_time == SleepTime(m.ts, plStartTs, plStartWall, now)
    IN  /\ plSt = "reading"
        /\ ~plStopEvent
        /\ plPos <= Len(ReaderMessages)
        /\ IF plRealtime /\ ~first /\ sleep_time > 0
           THEN /\ plSt' = "tosleep"
                /\ plSleep' = sleep_time
                /\ plDecided' = now
                /\ UNCHANGED <<plStartTs, plStartWall, plTarget, plPublishers, played,
                               plLog, plPos>>
           ELSE /\ plStartTs' = IF plRealtime /\ first THEN m.ts ELSE plStartTs
                /\ plStartWall' = IF plRealtime /\ first THEN now ELSE plStartWall
                /\ RunPublish(m, now, FALSE)
                /\ UNCHANGED <<plSt, plSleep, plTarget, plDecided>>
        /\ UNCHANGED <<plRealtime, plFailed>>
        /\ UNCHANGED <<activeRecorder, recClosed, recQueue, writerSt, connections, bag, now,
                       recPc, closePc, recCalls, published, lastPut, plStopEvent, plError,
                       plSession>>
        /\ UNCHANGED nonPlayVars

\* _sleep_with_stop(duration): end = time.time() + duration
RunSleepBegin ==
    /\ plSt = "tosleep"
    /\ plSt' = "sleeping"
    /\ plTarget' = now + plSleep
    /\ UNCHANGED <<plRealtime, plStartTs, plStartWall, plSleep, plDecided, plFailed, plLog>>
    /\ UNCHANGED <<activeRecorder, recClosed, recQueue, writerSt, connections, bag, now,
                   recPc, closePc, recCalls, published, lastPut, played, plPos,
                   plStopEvent, plError, plPublishers, plSession>>
    /\ UNCHANGED nonPlayVars

\* _sleep_with_stop returns (the stop event is set, or no time remains) and
\* the message is published.
RunWake ==
    /\ plSt = "sleeping"
    /\ plStopEvent \/ plTarget - now <= 0
    /\ plSt' = "reading"
    /\ RunPublish(ReaderMessages[plPos], plDecided, TRUE)
    /\ UNCHANGED <<plRealtime, plStartTs, plStartWall, plSleep, plTarget, plDecided,
                   plFailed>>
    /\ UNCHANGED <<activeRecorder, recClosed, recQueue, writerSt, connections, bag, now,
                   recPc, closePc, recCalls, published, lastPut, plStopEvent, plError,
                   plSession>>
    /\ UNCHANGED nonPlayVars

\* A statement of the loop raises (deserialize_cdr, declare_publisher, put).
RunRaise(kind) ==
    /\ plSt = "reading"
    /\ ~plStopEvent
    /\ plPos <= Len(ReaderMessages)
    /\ plSt' = "cleanup"
    /\ plFailed' = TRUE
    /\ plError' = (plError \/ ErrorStored(kind))
    /\ UNCHANGED <<plRealtime, plStartTs, plStartWall, plSleep, plTarget, plDecided, plLog>>
    /\ UNCHANGED <<activeRecorder, recClosed, recQueue, writerSt, connections, bag, now,
                   recPc, closePc, recCalls, published, lastPut, played, plPos,
                   plStopEvent, plPublishers, plSession>>
    /\ UNCHANGED nonPlayVars

\* The loop is left: no message remains, or the stop event is set.
RunLeave ==
    /\ plSt = "reading"
    /\ plStopEvent \/ plPos > Len(ReaderMessages)
    /\ plSt' = "cleanup"
    /\ UNCHANGED playVars
    /\ UNCHANGED <<activeRecorder, recClosed, recQueue, writerSt, connections, bag, now,
                   recPc, closePc, recCalls, published, lastPut, played, plPos,
                   plStopEvent, plError, plPublishers, plSession>>
    /\ UNCHANGED nonPlayVars

\* finally: every publisher undeclared, the session closed.
RunCleanup ==
    /\ plSt = "cleanup"
    /\ plSt' = "signalling"
    /\ plPublishers' = {}
    /\ plSession' = FALSE
    /\ UNCHANGED playVars
    /\ UNCHANGED <<activeRecorder, recClosed, recQueue, writerSt, connections, bag, now,
                   recPc, closePc, recCalls, published, lastPut, played, plPos,
                   plStopEvent, plError>>
    /\ UNCHANGED nonPlayVars

\* finally, last statement: self._finished.set(); the thread ends.
RunFinished ==
    /\ plSt = "signalling"
    /\ plSt' = "finished"
    /\ UNCHANGED playVars
    /\ UNCHANGED <<activeRecorder, recClosed, recQueue, writerSt, connections, bag, now,
                   recPc, closePc, recCalls, published, lastPut, played, plPos,
                   plStopEvent, plError, plPublishers, plSession>>
    /\ UNCHANGED nonPlayVars

\* The player on a recorded bag, in either mode, with stop and the clock.
PlayerNext ==
    \/ PlayerStart
    \/ PlayerStop
    \/ Tick
    \/ \E o \in {"ok", "listed", "other"} : RunOpen(o)
    \/ RunNext
    \/ RunSleepBegin
    \/ RunWake
    \/ \E kind \in {"listed", "other"} : RunRaise(kind)
    \/ RunLeave
    \/ RunCleanup
    \/ RunFinished

\* The recorder that was writing the bag ends and leaves it on disk: from
\* now on the player's bag path exists and can be read.
BagCompleted ==
    /\ writerSt = "running"
    /\ recClosed
    /\ recQueue = << >>
    /\ plSt \in {"idle", "finished"}
    /\ writerSt' = "closed"
    /\ UNCHANGED <<activeRecorder, recClosed, recQueue, connections, bag, now, recPc,
                   closePc, recCalls, published, lastPut, played, plSt, plPos,
                   plStopEvent, plError, plPublishers, plSession>>
    /\ UNCHANGED nonBagVars

\* The player started again and again, on a bag that may not be there at
\* the first start.
ReplayNext ==
    \/ PlayerNext
    \/ RunOpen("missing")
    \/ BagCompleted

PlayerSpecInit == PlayerBagInit /\ KeyIdle /\ NodeInit /\ CallInit /\ LaunchIdle
    /\ DispInit /\ StopInit /\ SerIdle /\ PaceIdle /\ EnvIdle /\ EstIdle /\ WaitIdle

SpecPlayer == PlayerSpecInit /\ [][PlayerNext]_vars

SpecReplay == PlayerSpecInit /\ [][ReplayNext]_vars

LaunchSpecInit == LaunchInit /\ KeyIdle /\ NodeInit /\ BagInit /\ CallInit /\ PlayInit
    /\ DispInit /\ StopInit /\ SerIdle /\ PaceIdle /\ EnvInit /\ EstIdle /\ WaitIdle

SpecLaunch == LaunchSpecInit /\ [][LaunchNext]_vars

\* The recorder with concurrent callers, and the player.
BagNext ==
    \/ SetActiveRecorder
    \/ ClearActiveRecorder
    \/ Tick
    \/ \E c \in Callers, k \in BagKeys, v \in BagPayloads : RecordBegin(c, k, v)
    \/ \E c \in Callers : RecordEnqueue(c)
    \/ WriterStep
    \/ \E c \in Closers : CloseBegin(c)
    \/ \E c \in Closers : CloseReturn(c)
    \/ PlayerStart
    \/ PlayerOpen
    \/ PlayerEmit
    \/ PlayerEnd
    \/ PlayerStop

BagSpecInit == BagInit /\ KeyIdle /\ NodeInit /\ CallInit /\ PlayInit /\ LaunchIdle
    /\ DispInit /\ StopInit /\ SerIdle /\ PaceIdle /\ EnvIdle /\ EstIdle /\ WaitIdle

SpecBag == BagSpecInit /\ [][BagNext]_vars

\* Nodes publishing while a recorder may be active, the bag closed and then
\* played back: one thread of each kind.
PutNext ==
    \/ \E n \in BagNodes, v \in PutValues : Put(n, v)
    \/ SetActiveRecorder
    \/ ClearActiveRecorder
    \/ \E k \in BagKeys, v \in PutValues : RecordBegin("w1", k, v)
    \/ RecordEnqueue("w1")
    \/ WriterStep
    \/ CloseBegin("c1")
    \/ CloseReturn("c1")
    \/ PlayerStart
    \/ PlayerOpen
    \/ PlayerEmit
    \/ PlayerEnd

SpecPut == BagSpecInit /\ [][PutNext]_vars

\* Threads calling record_zenoh_message while the recorder is installed,
\* cleared and closed, and while its writer thread runs, ends or fails.
RecordNext ==
    \/ SetActiveRecorder
    \/ ClearActiveRecorder
    \/ \E c \in Callers, v \in RecordPayloads : RzCheck(c, MakeKey(<<"r">>, << >>, PutTopic), v)
    \/ \E c \in Callers : RzCall(c)
    \/ \E c \in Callers : RecordEnqueue(c)
    \/ WriterStep
    \/ WriterFail
    \/ CloseBegin("c1")
    \/ CloseReturn("c1")

SpecRecord == BagSpecInit /\ [][RecordNext]_vars

KeyNext ==
    \/ KeyPut
    \/ KeySubscribe
    \/ KeyGet

KeySpecInit == KeyInit /\ NodeInit /\ BagInit /\ CallInit /\ PlayInit /\ LaunchIdle
    /\ DispInit /\ StopInit /\ SerIdle /\ PaceIdle /\ EnvIdle /\ EstIdle /\ WaitIdle

SpecKey == KeySpecInit /\ [][KeyNext]_vars

\* The node's messaging: subscriptions, samples, take, and stop.
NodeNext ==
    \/ \E t \in NodeTopics, cb \in Callbacks \cup {NoCallback}, d \in BOOLEAN :
          Subscribe(t, cb, d)
    \/ \E t \in NodeTopics, cb \in Callbacks : RegisterCallback(t, cb)
    \/ \E k \in FullKeys : Publish(k)
    \/ \E s \in liveSubs : OnSample(s)
    \/ \E t \in NodeTopics : TakeRead(t)
    \/ TakeClear
    \/ Stop

\* The node's lifecycle: start, the worker tasks, and stop.
WorkerNext ==
    \/ Start
    \/ \E i \in 1..MaxStarts, o \in {"ok", "raise"} : TaskBegin(i, o)
    \/ \E i \in 1..MaxStarts, o \in {"ok", "raise"} : TaskResume(i, o)
    \/ \E i \in 1..MaxStarts : TaskCancelled(i)
    \/ Stop

NodeSpecInit == NodeInit /\ KeyIdle /\ BagInit /\ CallInit /\ PlayInit /\ LaunchIdle
    /\ DispInit /\ StopInit /\ SerIdle /\ PaceIdle /\ EnvIdle /\ EstIdle /\ WaitIdle

Spec == NodeSpecInit /\ [][NodeNext]_vars

SpecWorker == NodeSpecInit /\ [][WorkerNext]_vars

\* The lifecycle on a running event loop: the loop gets to every task whose
\* cancellation was requested.
SpecWorkerFair ==
    /\ NodeSpecInit
    /\ [][WorkerNext]_vars
    /\ \A i \in 1..MaxStarts : WF_vars(TaskCancelled(i))

SpecDispatch == NodeSpecInit /\ [][DispatchNext]_vars

SpecStop == NodeSpecInit /\ [][StopNext]_vars

\* A node registering handlers, subscribing, and stopped.
RegisterNext ==
    \/ \E t \in NodeTopics, cb \in RegisterHandlers :
          RegisterCallbackUpTo(MaxRegistered, t, cb)
    \/ \E t \in NodeTopics, cb \in Callbacks \cup {NoCallback}, d \in BOOLEAN :
          Subscribe(t, cb, d)
    \/ Stop

SpecRegister == NodeSpecInit /\ [][RegisterNext]_vars

EstSpecInit == EstInit /\ KeyIdle /\ NodeInit /\ BagInit /\ CallInit /\ PlayInit /\ LaunchIdle
    /\ DispInit /\ StopInit /\ SerIdle /\ PaceIdle /\ EnvIdle /\ WaitIdle

SpecEstimator == EstSpecInit /\ [][EstNext]_vars

WaitSpecInit == WaitInit /\ KeyIdle /\ NodeInit /\ BagInit /\ CallInit /\ PlayInit /\ LaunchIdle
    /\ DispInit /\ StopInit /\ SerIdle /\ PaceIdle /\ EnvIdle /\ EstIdle

SpecWait == WaitSpecInit /\ [][WaitNext]_vars

PaceSpecInit == PaceInit /\ KeyIdle /\ NodeInit /\ BagInit /\ CallInit /\ PlayInit /\ LaunchIdle
    /\ DispInit /\ StopInit /\ SerIdle /\ EnvIdle /\ EstIdle /\ WaitIdle

SpecPace == PaceSpecInit /\ [][PaceNext]_vars

SerSpecInit == SerInit /\ KeyIdle /\ NodeInit /\ BagInit /\ CallInit /\ PlayInit /\ LaunchIdle
    /\ DispInit /\ StopInit /\ PaceIdle /\ EnvIdle /\ EstIdle /\ WaitIdle

SpecSerial == SerSpecInit /\ [][SerNext]_vars

(* ------------------------------------------------------------------ *)
(* Properties                                                           *)
(* ------------------------------------------------------------------ *)

\* C1 (Spec): a take that returns a value right after a take on the same key
\* that returned a value had a sample stored for the key in between; and a
\* take returns a value only for a key a sample was received on.
C1_TakeConsumes ==
    /\ (takeObs.got /\ takeObs.prevGot) => takeObs.arrived
    /\ takeObs.got => takeObs.known

\* C1 witness: a take returned a value, no sample arrived, and the next take
\* on that key returned nothing.
C1_SecondTakeEmpty ==
    /\ takeObs.prevGot
    /\ ~takeObs.arrived
    /\ ~takeObs.got
    /\ takeObs.known

\* C2 (Spec), the claim as stated: take's read and clear are one atomic
\* step for the transport callback, so a take never clears a sample other
\* than the one it returns.
C2_TakeAtomic == ~takeObs.lost

\* C3 (Spec), the claim as stated: the transport holds at most one live
\* subscription of the node per full key.
C3_OneSubscriptionPerKey == \A k \in FullKeys : Cardinality(LiveOn(k)) <= 1

\* C4 (SpecWorker), the claim as stated: however often start() is called,
\* the node has at most one worker, the one the first call spawned.
C4_StartIdempotent ==
    /\ Cardinality({i \in DOMAIN tasks : Alive(tasks[i])}) <= 1
    /\ Len(tasks) <= 1

\* C5 (SpecWorker), the claim as stated: once stop() has returned (and until
\* start() is called again) the running flag is false and every worker task
\* of the node is done.
C5_StoppedWorkerDone ==
    stoppedSince => (~running /\ \A i \in DOMAIN tasks : ~Alive(tasks[i]))

\* C6 (SpecWorker), the claim as stated: an exception of step() does not end
\* the worker while stop has not been requested.
C6_StepExceptionSurvived ==
    \A i \in DOMAIN tasks : tasks[i].st = "failed" => stopCalls > 0

\* C7 (SpecPut), the claim as stated: a put made while a recorder is
\* installed hands it exactly one entry, and a put made with none installed
\* hands over nothing.
C7_PutHandsOneEntry ==
    lastPut.key # NoKey => lastPut.handed = (IF lastPut.active THEN 1 ELSE 0)

\* The key the namespace rule of the specification gives.
C8_RuleKey(r, g, t) ==
    IF StartsWith(t, Slash) THEN Tail(t)
    ELSE IF g # << >> /\ ~StartsWith(t, g \o Slash)
         THEN r \o Slash \o g \o Slash \o t
         ELSE r \o Slash \o t

C9_RelativeAlwaysGrouped ==
    LET want == IF StartsWith(kTopic, Slash) THEN kTopic
                ELSE IF kGroup # << >>
                     THEN Slash \o kRobot \o Slash \o kGroup \o Slash \o kTopic
                     ELSE Slash \o kRobot \o Slash \o kTopic
    IN  /\ kPutKey # NoKey => kPutKey = want
        /\ kSubKey # NoKey => kSubKey = want

\* C9 (SpecKey), amended: a relative topic t yields "/" r "/" g "/" t when g
\* is non-empty and t does not begin with g "/", and "/" r "/" t when g is
\* empty or t begins with g "/"; an absolute topic is returned unchanged; put
\* and subscribe hand exactly this key to the transport.
C9_RelativeGroupedUnlessPrefixed ==
    LET bare == kGroup = << >> \/ StartsWith(kTopic, kGroup \o Slash)
        want == IF StartsWith(kTopic, Slash) THEN kTopic
                ELSE IF bare THEN Slash \o kRobot \o Slash \o kTopic
                ELSE Slash \o kRobot \o Slash \o kGroup \o Slash \o kTopic
    IN  /\ kPutKey # NoKey => kPutKey = want
        /\ kSubKey # NoKey => kSubKey = want

\* C9 witness: put and subscribe were both called with a topic that already
\* begins with the node's group.
C9_GroupPrefixedTopicUsed ==
    /\ kPutKey # NoKey
    /\ kSubKey # NoKey
    /\ kGroup # << >>
    /\ StartsWith(kTopic, kGroup \o Slash)

\* The payloads of the entries of a sequence that are on key k.
RECURSIVE OnKey(_, _)
OnKey(entries, k) ==
    IF entries = << >> THEN << >>
    ELSE (IF Head(entries).key = k THEN <<Head(entries).bytes>> ELSE << >>)
             \o OnKey(Tail(entries), k)

\* What the nodes put while the recorder was recording, as (key, bytes).
PutWhileRecording ==
    [i \in 1..Len(SelectSeq(published, LAMBDA e : e.rec)) |->
        [key |-> SelectSeq(published, LAMBDA e : e.rec)[i].key,
         bytes |-> EnsureBytes(SelectSeq(published, LAMBDA e : e.rec)[i].value)]]

\* What the player's run published, as (key, bytes).
PlayedBack == [i \in 1..Len(played) |-> [key |-> played[i].topic, bytes |-> played[i].data]]

\* C10 (SpecPut), the claim as stated: once the bag is closed and a playback
\* has run to its end without stop or error, it has published on each key
\* exactly the payloads the nodes put on it while recording, in that order.
C10_ReplayEqualsRecording ==
    (plSt = "finished" /\ ~plStopEvent /\ ~plError /\ writerSt = "closed") =>
        \A k \in BagKeys : OnKey(PlayedBack, k) = OnKey(PutWhileRecording, k)

\* The sentinels close() has enqueued so far: those still queued, and the one
\* the writer thread consumed when it ended.
SentinelsEnqueued ==
    Cardinality({i \in DOMAIN recQueue : recQueue[i] = Sentinel})
        + (IF writerSt = "closed" THEN 1 ELSE 0)

\* C11 (SpecBag), the claim as stated: close() enqueues one sentinel at most,
\* and every close() call, the first as well as a further or concurrent one,
\* has returned only if the writer thread has drained the queue up to the
\* sentinel and closed the writer.
C11_CloseReturnsDrained ==
    /\ SentinelsEnqueued <= 1
    /\ \A c \in Closers : closePc[c] = "returned" => writerSt = "closed"

\* C13 (SpecBag), the claim as stated: the timestamps of successive bag
\* entries never decrease, whatever the interleaving of the record() calls.
C13_TimestampsMonotone ==
    \A i \in DOMAIN bag : \A j \in DOMAIN bag : i < j => bag[i].ts <= bag[j].ts

\* C12 (SpecRecord): no exception leaves record_zenoh_message, and a caller
\* inside it or inside record() can always take its next step, whatever the
\* state of the recorder, of its queue and of its writer thread.
C12_RecordNeverBlocksOrRaises ==
    /\ ~rzEscaped
    /\ \A c \in Callers : rzPc[c].st = "call" => ENABLED RzCall(c)
    /\ \A c \in Callers : recPc[c] # Idle => ENABLED RecordEnqueue(c)

\* C12 witness: a call raised inside record_zenoh_message and was caught,
\* and a caller is about to enqueue although the writer thread has failed
\* with an entry still queued.
C12_CaughtAndWriterFailed ==
    /\ rzCaught
    /\ writerSt = "failed"
    /\ recQueue # << >>
    /\ \E c \in Callers : recPc[c] # Idle

\* What the player publishes for the first n messages the reader yields.
C14_Yielded(n) ==
    [i \in 1..n |-> [topic |-> ReaderMessages[i].topic,
                     data |-> DeserializeCdr(ReaderMessages[i].raw)]]

\* C14 (SpecPlayer): in either mode, what a run has published is at every
\* moment the messages the reader yielded so far, each once and in the
\* reader's order; a run that ended without stop and without error has
\* published them all.
C14_PlayedInReaderOrder ==
    /\ Len(played) <= Len(ReaderMessages)
    /\ played = C14_Yielded(Len(played))
    /\ (plSt = "finished" /\ ~plStopEvent /\ ~plFailed) =>
           Len(played) = Len(ReaderMessages)

\* C14 witness: a real-time run over two different messages ended without
\* stop or error, having slept before one of them.
C14_TwoMessagesPlayed ==
    /\ plSt = "finished"
    /\ plRealtime
    /\ ~plStopEvent
    /\ ~plFailed
    /\ Len(played) = 2
    /\ played[1] # played[2]
    /\ \E i \in DOMAIN plLog : plLog[i].slept

\* The wall time message number i of the log is due at.
C15_Due(i) == plStartWall + (plLog[i].ts - plStartTs)

C16_FinishedCleanWithError ==
    plSt = "finished" =>
        /\ plPublishers = {}
        /\ ~plSession
        /\ plFailed => plError

\* The configuration is valid: a known session mode, every type resolvable,
\* every params a mapping.
ConfigValid ==
    /\ cfgMode \in ValidModes
    /\ \A i \in DOMAIN cfgNodes :
          Resolvable(cfgNodes[i].type) /\ ~ParamsOf(cfgNodes[i]).none

\* C17 (SpecLaunch), the claim as stated: with an unknown session mode or an
\* unresolvable node type anywhere in the configuration, launch_from_config
\* starts no node.
C17_LaunchAllOrNothing ==
    (cfgMode \notin ValidModes \/ \E i \in DOMAIN cfgNodes : ~Resolvable(cfgNodes[i].type))
        => \A i \in DOMAIN lNodes : lNodes[i].starts = 0

C19_OneSessionPerProcess ==
    /\ lOpened <= 1
    /\ Cardinality({lNodes[i].session : i \in DOMAIN lNodes}) <= 1
    /\ \A i \in DOMAIN lNodes : lNodes[i].stops = 0 => lNodes[i].session \in lSessions

\* C20 (SpecLaunch), the claim as stated: main on a valid configuration (not
\* a dry run) keeps the launched nodes running until SIGINT; no SIGINT is
\* delivered in this specification, so main has not exited.
C20_RunsUntilSigint ==
    (ConfigValid /\ ~mainDryRun) => mainPc \notin {"exit0", "exit1"}

\* C21 (SpecDispatch), the claim as stated: every _on_sample call that has
\* ended invoked, in order, the callback given to subscribe and every
\* handler registered for the key, each with the sample's value, and each
\* found that sample in the latest-value slot.
C21_SampleDispatched ==
    (dPc = "idle" /\ dSub # NoSub) =>
        /\ [i \in DOMAIN dCalls |-> dCalls[i].cb] = dOwed
        /\ \A i \in DOMAIN dCalls : dCalls[i].arg = dVal /\ dCalls[i].slot = dVal

\* C22 (SpecDispatch), the claim as stated: no exception raised on the
\* receive path leaves _on_sample into the transport's thread.
C22_NothingEscapes == ~dEscaped

\* C23 (SpecStop), the claim as stated: once stop() was called, no call of
\* it has raised, the session is closed, and the running flag is false
\* unless start() was called again.
C23_StopAlwaysSucceeds ==
    stopCalls > 0 => (~stopRaised /\ ~sessionOpen /\ (stoppedSince => ~running))

\* C24 (SpecRecord), the claim as stated: once the writer thread has
\* failed, a record() call that is made gets no entry to enqueue: it is
\* dropped.
C24_DroppedAfterWriterFailure ==
    [][writerSt = "failed" =>
          \A c \in Callers : recPc[c] = Idle => recPc'[c] = Idle]_vars

\* C25 (SpecLaunch), the claim as stated: with TIDE_RECORD_BAG set, the
\* active recorder is installed whenever a launched node is started and
\* not yet stopped.
C25_RecorderInstalledBeforeNodes ==
    envRecordBag =>
        \A i \in DOMAIN lNodes :
            (lNodes[i].starts > 0 /\ lNodes[i].stops = 0) => activeRecorder

\* C26 (SpecKey), the claim as stated: the node's robot_id is never empty,
\* and no key that put, subscribe or get hands to the transport is empty.
C26_NeverEmpty ==
    /\ kRobot # << >>
    /\ kPutKey # << >>
    /\ kSubKey # << >>
    /\ kGetKey # << >>

\* C27 (SpecSerial), the claim as stated: to_zenoh_value and
\* from_zenoh_value raise for no message model and no plain dictionary,
\* and the value decoded from the encoding of a value equals that value.
C27_RoundTrips ==
    /\ sPc # "raised"
    /\ sPc = "decoded" => sBack = sIn

C30_PacedLoop ==
    \A i \in DOMAIN pLog :
        LET e == pLog[i]
        IN  /\ e.start = e.t0
            /\ e.sleep = Max(0, pPeriod - (e.t1 - e.t0))
            /\ e.sleep >= 0
            /\ (e.t1 - e.t0 > pPeriod => e.sleep = 0)
            /\ (i > 1 => e.start - pLog[i - 1].start >= pPeriod)

\* C30 witness: a step took longer than 1/hz, was followed by a zero sleep
\* and the next step, and another step was followed by a positive sleep.
C30_LongStepThenNext ==
    \E i \in DOMAIN pLog, j \in DOMAIN pLog :
        /\ i < Len(pLog)
        /\ pLog[i].t1 - pLog[i].t0 > pPeriod
        /\ pLog[i].sleep = 0
        /\ pLog[j].sleep > 0

(* ---- C31: register_callback ---- *)

IsPrefix(a, b) == Len(a) <= Len(b) /\ SubSeq(b, 1, Len(a)) = a

\* The node holds a live subscription on key k: the handle in its table
\* is one the transport serves.
SubscribedTo(k) == \E s \in liveSubs : s.key = k /\ s.id = subscribers[k]

\* What one register_callback call on key k does to the tables.
RegisteredOn(k) ==
    /\ Len(callbacks'[k]) = Len(callbacks[k]) + 1
    /\ IsPrefix(callbacks[k], callbacks'[k])
    /\ callbacks'[k][Len(callbacks'[k])] \in RegisterHandlers
    /\ SubscribedTo(k)'
    /\ IF SubscribedTo(k)
       THEN nextSub' = nextSub /\ liveSubs' = liveSubs
       ELSE nextSub' = nextSub + 1

\* C31 as stated: in every state of the node, a register_callback(topic, cb)
\* call appends cb behind the handlers registered earlier, subscribes only
\* when the node is not subscribed to the key, and leaves the node
\* subscribed to the key.
C31_SubscribedAfterRegister ==
    [][\A k \in FullKeys : callbacks'[k] # callbacks[k] => RegisteredOn(k)]_vars

\* C31, amended: on a node whose stop() has not closed the session, every
\* register_callback call appends cb to the end of the key's handler list,
\* keeps the handlers registered earlier in their order, declares a
\* subscription only when the node holds none for the key, and leaves the
\* node subscribed to the key; no other call changes a handler list.
C31_RegisterAppendsAndSubscribes ==
    [][\A k \in FullKeys :
          /\ callbacks'[k] # callbacks[k] => (sessionOpen => RegisteredOn(k))
          /\ IsPrefix(callbacks[k], callbacks'[k])
          /\ (sessionOpen' /\ callbacks'[k] # << >>) => SubscribedTo(k)']_vars

\* A second handler was registered on a key behind the first, on the one
\* subscription the first call declared.
C31_TwoHandlersOneSubscription ==
    \E k \in FullKeys :
        /\ callbacks[k] = <<"cb1", "cb2">>
        /\ sessionOpen
        /\ SubscribedTo(k)
        /\ nextSub = 2

(* ---- C32: the pose estimator's tick ---- *)

\* What the tick recorded in e had to do: propagate once a valid twist was
\* received, update when a valid measurement was cached, publish once.
TickOwed(e) ==
    (IF e.seen THEN <<"propagate">> ELSE << >>)
    \o (IF e.meas \in ValidDicts THEN <<"update">> ELSE << >>)
    \o <<"publish">>

\* C32: every step() consumes the cached twist and the cached measurement,
\* propagates exactly when a valid twist was received so far, then updates
\* exactly when a new measurement was cached, and publishes the estimate
\* exactly once, in that order.
C32_TickPropagatesUpdatesPublishes ==
    \A i \in DOMAIN eLog :
        /\ eLog[i].calls = TickOwed(eLog[i])
        /\ eLog[i].twist \in CachedDicts => eLog[i].twistLeft = None
        /\ eLog[i].meas \in CachedDicts => eLog[i].measLeft = None

(* ---- C33: the player's interruptible wait ---- *)

\* The wait is in progress: _sleep_with_stop was called and has not returned.
Waiting == wPc \in {"test", "asleep"}

\* The moment from which the wait knows of the stop: when the event was set,
\* or when the wait began with the event already set.
StopKnownAt == Max(wStopAt, wBegan)

\* C33: _sleep_with_stop asks time.sleep for at most 50 ms at a time and
\* never for more than remains of the duration, tests the stop event before
\* every sleep, returns at the first test that finds it set, and so a wait
\* never goes on for more than 50 ms after the stop event was set, nor past
\* the end of the duration.
C33_WaitInterruptible ==
    /\ \A i \in DOMAIN wChunks : wChunks[i] >= 1 /\ wChunks[i] <= SleepChunk
    /\ wPc = "asleep" => wWake <= wEnd /\ wWake - wClock <= SleepChunk
    /\ (wPc = "asleep" /\ wStop) => wWake - StopKnownAt <= SleepChunk
    /\ (Waiting /\ wStop) => wClock - StopKnownAt <= SleepChunk
    /\ Waiting => wClock <= wEnd
    /\ (wPc = "returned" /\ wStop) =>
           wReturnedAt - StopKnownAt <= SleepChunk /\ wReturnedAt <= wEnd
    /\ (wPc = "returned" /\ ~wStop) => wReturnedAt = wEnd

\* A wait of more than one chunk was cut short by a stop set during a sleep.
C33_StoppedInSecondChunk ==
    /\ wPc = "returned"
    /\ Len(wChunks) = 2
    /\ wStopAt # NoTime
    /\ wStopAt < wReturnedAt
    /\ wReturnedAt < wEnd

(* ---- C34: what record() drops ---- *)

\* The entries record() has produced and not yet written.
EntriesInHand ==
    {recPc[c] : c \in Callers} \cup {recQueue[i] : i \in DOMAIN recQueue}

\* close() has returned to some caller.
CloseReturned == \E c \in Closers : closePc[c] = "returned"

\* C34: a payload that converts to no bytes is never enqueued and never
\* written to the bag, and once close() has returned no record() call gets
\* as far as an entry to enqueue.
C34_EmptyAndLateDropped ==
    /\ [](/\ \A e \in EntriesInHand \ {Idle, Sentinel} : e.data # << >>
          /\ \A i \in DOMAIN bag : DeserializeCdr(bag[i].raw) # << >>)
    /\ [][CloseReturned => \A c \in Callers : recPc[c] = Idle => recPc'[c] = Idle]_vars

\* record() was called on an installed, open recorder whose writer runs, and
\* left nothing to write: the payload converted to no bytes.
C34_EmptyPayloadDropped ==
    /\ activeRecorder
    /\ ~recClosed
    /\ writerSt = "running"
    /\ recCalls >= 1
    /\ ~rzCaught
    /\ recQueue = << >>
    /\ bag = << >>
    /\ \A c \in Callers : recPc[c] = Idle /\ rzPc[c] = RzIdle

(* ---- C35: one invocation per callback and sample ---- *)

\* How many times cb was invoked for the sample dVal.
HitCount(cb) == Cardinality({i \in DOMAIN dHits : dHits[i] = cb})

\* The sample dVal was handed to every subscription owed it, and every
\* _on_sample call made for it returned.
Delivered == dPc = "idle" /\ pending = {} /\ dSub # NoSub /\ ~dEscaped

\* C35: once a sample was delivered on a key, every callback registered for
\* the key (the callbacks the last _on_sample call had to invoke) was
\* invoked exactly once for it, whatever subscribe and register_callback
\* calls were made for the key before.
C35_OncePerSample ==
    Delivered => \A i \in DOMAIN dOwed : HitCount(dOwed[i]) = 1

(* ---- C36: nothing published once stop is set ---- *)

\* C36 (SpecPlayer), the claim as stated: no message is published with the
\* stop event set, and in real-time mode no message after the first is
\* published before start_wall + (its timestamp - start_timestamp).
C36_NothingPublishedAfterStop ==
    \A i \in DOMAIN plLog :
        /\ ~plLog[i].stopped
        /\ (plRealtime /\ i > 1) => plLog[i].at >= C15_Due(i)

(* ---- C37: record() racing close() ---- *)

\* C37 (SpecBag), the claim as stated: no entry is ever on the queue behind
\* the sentinel, and once close() has returned with the writer thread ended
\* normally the queue is empty: all that record() enqueued is in the bag.
C37_NothingBehindSentinel ==
    /\ \A i \in DOMAIN recQueue : \A j \in DOMAIN recQueue :
          (recQueue[i] = Sentinel /\ i < j) => recQueue[j] = Sentinel
    /\ (CloseReturned /\ writerSt = "closed") => recQueue = << >>

(* ---- C38: nothing is delivered after stop() ---- *)

C39_StopWins ==
    /\ [](stoppedSince => ~running)
    /\ [][(stoppedSince /\ stoppedSince') =>
             /\ running' = FALSE
             /\ \A i \in DOMAIN tasks :
                   /\ tasks[i].st = "created" => tasks'[i].st \in {"created", "cancelled"}
                   /\ tasks'[i].steps = tasks[i].steps]_vars

\* stop() came before the worker's first run: the worker ended cancelled
\* without having invoked step(), with the running flag false.
C39_CancelledBeforeFirstRun ==
    /\ stoppedSince
    /\ ~running
    /\ \E i \in DOMAIN tasks : tasks[i].st = "cancelled" /\ tasks[i].steps = 0

(* ---- C40: the player's error property ---- *)

\* C40 (SpecReplay), the claim as stated: when a run has ended without an
\* exception the error property is None, whatever an earlier run of the
\* player left there; and a run on a bag path that does not exist opens no
\* session, publishes nothing, sets the error and goes on to signal finished.
C40_ErrorOfLatestRun ==
    /\ []((plSt = "finished" /\ ~plFailed) => ~plError)
    /\ [][RunOpen("missing") =>
             (~plSession' /\ played' = << >> /\ plError' /\ plSt' = "cleanup")]_vars

====
